---------------------------- MODULE Spec2Model ----------------------------
(***************************************************************************)
(* Model of the post-detection pipeline of adobe-1a-cpp:                   *)
(*   YOLOInference::postprocess_yolo11_detections  (detection decoder)     *)
(*   YOLOInference::nms                            (non-maximum suppr.)    *)
(*   PDFProcessor::detect_tables_on_page           (table heuristic)       *)
(*   PDFProcessor::is_region_overlapping_table     (overlap filter)        *)
(*   TextCorrector::correct_text                   (literal correction)    *)
(*   HeadingClassifier::determine_heading_level    (heading levels)        *)
(*   YOLOInference::detect_layout                  (layout and fallback)   *)
(*   PDFProcessor::process_single_page_ai          (headings of a page)    *)
(*   PDFProcessor::detect_headings and main        (pages and files)       *)
(*   PDFProcessor::process_pdf on a shared object  (interleaved runs)      *)
(*   TextCorrector::load_custom_corrections        (corrections file)      *)
(*   HeadingClassifier context and repeated calls  (purity of the level)   *)
(*   the reads of the decoder in its output tensor (index range)           *)
(*   YOLOInference::initialize, PDFProcessor()     (detector readiness)    *)
(*                                                                         *)
(* Number conventions.  C++ floats are modelled by exact integers:         *)
(*   - confidences, class scores and thresholds are in thousandths         *)
(*     (0.5f is 500, 0.45f is 450);                                        *)
(*   - tensor geometry (centre, width, height) is in whole model pixels;   *)
(*     the corners of a decoded BBox are held in HALF pixels, so that      *)
(*     "width / 2.0f" is exact: x1 = (2*cx - w) * scale_x;                 *)
(*   - vector indices are 1-based here and 0-based in the C++ code.        *)
(* Text is a sequence of one-character strings.                            *)
(***************************************************************************)
EXTENDS Integers, Sequences, FiniteSets, TLC

VARIABLES
    pc,             \* position of the modelled call: "start", "done", ...
    \* ---- YOLOInference::nms / postprocess_yolo11_detections
    boxes,          \* std::vector<BBox> boxes handed to nms
    threshold,      \* nms's threshold parameter (thousandths)
    indices,        \* nms's index vector after std::sort
    keep,           \* nms's result
    output_data,    \* flat raw tensor [attributes][detections]
    num_attributes,
    num_detections,
    scale_x,
    scale_y,
    detections,     \* final_boxes returned by the decoder
    \* ---- PDFProcessor::detect_tables_on_page / is_region_overlapping_table
    text_blocks,    \* std::vector<fz_rect> text_blocks of the page
    table_regions,  \* std::vector<cv::Rect> table_regions
    region,         \* the cv::Rect given to is_region_overlapping_table
    overlapping,    \* its result
    \* ---- TextCorrector
    input,          \* the text given to correct_text
    basic_fixes_,   \* the literal rules in the order the map iterates them
    result,         \* correct_text(input)
    result2,        \* correct_text(result)
    \* ---- HeadingClassifier::determine_heading_level
    heading_text,   \* the text parameter
    layout_label,   \* the layout_label parameter
    page_number,    \* the page_number parameter
    level,          \* the HeadingLevel returned
    \* ---- YOLOInference::initialize / detect_layout
    USE_ONNX_RUNTIME, \* whether the build has the ONNX runtime
    initialized_,   \* YOLOInference::initialized_
    ort_session_,   \* whether ort_session_ holds a session
    image,          \* the cv::Mat given to detect_layout: its cols and rows
    inference,      \* what running the session did in detect_layout
    layout,         \* the std::vector<BBox> detect_layout returned
    \* ---- main / PDFProcessor::process_pdf / ai_detect_headings
    files_to_process,   \* main: files_to_process.size()
    file_index,         \* main: the loop index i, the files done so far
    successful_files,   \* main: successful_files
    reported,           \* main: result.success of each file done, in order
    exit_code,          \* main: the value returned, -1 while running
    yolo_ready,         \* yolo_detector_ && yolo_detector_->is_initialized()
    page_count,         \* process_pdf: images.size()
    next_page,          \* ai_detect_headings: the loop index i
    all_headings,       \* ai_detect_headings: all_headings
    page_input,         \* the page last given to process_single_page_ai
    page_headings,      \* what process_single_page_ai returned for it
    classified,         \* the regions of it given to determine_heading_level
    ocr_regions,        \* the regions of it given to crop_and_ocr_text
    \* ---- two runs of process_pdf on one PDFProcessor
    current_pdf_path_,  \* PDFProcessor::current_pdf_path_: 0 is the empty path
    run_pc,             \* the position of each run
    run_tables,         \* process_single_page_ai: table_regions of each run
    temp_crop,          \* crop_and_ocr_text: temp_crop of each run
    tmp_files,          \* the files /tmp/temp_crop_<n>.png, by n
    run_stdout,         \* crop_and_ocr_text: what tesseract printed
    run_headings,       \* process_single_page_ai: page_headings of each run
    \* ---- TextCorrector::load_custom_corrections and the loops of
    \* ---- apply_basic_fixes, step by step
    custom_file,        \* the file load_custom_corrections was called with
    fix_k,              \* apply_basic_fixes: the rule the for loop is at
    fix_pos,            \* apply_basic_fixes: pos of the while loop
    \* ---- one HeadingClassifier called several times
    heading_bbox,       \* determine_heading_level: the bbox argument
    document_title_,    \* HeadingClassifier::document_title_
    total_pages_,       \* HeadingClassifier::total_pages_
    classifier_initialized_,  \* HeadingClassifier::initialized_
    other_calls,        \* the calls made with other arguments so far
    level_again,        \* what the later call with the same arguments returned
    \* ---- the reads of postprocess_yolo11_detections
    tensor_reads        \* the indices of output_data the call read

vars == <<pc, boxes, threshold, indices, keep, output_data, num_attributes,
          num_detections, scale_x, scale_y, detections, text_blocks,
          table_regions, region, overlapping, input, basic_fixes_, result,
          result2, heading_text, layout_label, page_number, level,
          USE_ONNX_RUNTIME, initialized_, ort_session_, image, inference,
          layout, files_to_process, file_index, successful_files, reported,
          exit_code, yolo_ready, page_count, next_page, all_headings,
          page_input, page_headings, classified, ocr_regions,
          current_pdf_path_, run_pc,
          run_tables, temp_crop, tmp_files, run_stdout, run_headings,
          custom_file, fix_k, fix_pos, heading_bbox, document_title_,
          total_pages_, classifier_initialized_, other_calls, level_again,
          tensor_reads>>

nmsVars == <<boxes, threshold, indices, keep>>
decVars == <<output_data, num_attributes, num_detections, scale_x, scale_y,
             detections>>
tableVars == <<text_blocks, table_regions, region, overlapping>>
textVars == <<input, basic_fixes_, result, result2>>
headVars == <<heading_text, layout_label, page_number, level>>
layoutVars == <<USE_ONNX_RUNTIME, initialized_, ort_session_, image,
                inference, layout>>
docVars == <<files_to_process, file_index, successful_files, reported,
             exit_code, yolo_ready, page_count, next_page, all_headings,
             page_input, page_headings, classified, ocr_regions>>
runVars == <<current_pdf_path_, run_pc, run_tables, temp_crop, tmp_files,
             run_stdout, run_headings>>
customVars == <<custom_file, fix_k, fix_pos>>
contextVars == <<heading_bbox, document_title_, total_pages_,
                 classifier_initialized_, other_calls, level_again>>
readVars == <<tensor_reads>>
otherVars == <<customVars, contextVars, readVars>>
pipelineVars == <<headVars, layoutVars, docVars, runVars, otherVars>>

Max(a, b) == IF a >= b THEN a ELSE b
Min(a, b) == IF a <= b THEN a ELSE b

(***************************************************************************)
(* Bounds of the model.                                                    *)
(***************************************************************************)
MaxBoxes == 3
MaxDet == 2
MaxBlocks == 7
MaxTables == 2
MaxTextLen == 3
MaxPage == 2
MaxDocs == 2
MaxNames == 2
MaxString == 8
MaxCalls == 2

(***************************************************************************)
(* BBox (common_types.h).                                                  *)
(***************************************************************************)
BBox(x1, y1, x2, y2, confidence, class_id, label) ==
    [x1 |-> x1, y1 |-> y1, x2 |-> x2, y2 |-> y2,
     confidence |-> confidence, class_id |-> class_id, label |-> label]

(***************************************************************************)
(* YOLOInference::nms                                                      *)
(***************************************************************************)
\* lines 322-327: intersection area of two boxes
Intersection(box_i, box_j) ==
    LET x1 == Max(box_i.x1, box_j.x1)
        y1 == Max(box_i.y1, box_j.y1)
        x2 == Min(box_i.x2, box_j.x2)
        y2 == Min(box_i.y2, box_j.y2)
    IN  Max(0, x2 - x1) * Max(0, y2 - y1)

\* lines 328-329
BoxArea(b) == (b.x2 - b.x1) * (b.y2 - b.y1)

\* line 330
UnionArea(box_i, box_j) ==
    BoxArea(box_i) + BoxArea(box_j) - Intersection(box_i, box_j)

\* The mutant of IouExceeds: ">=" in place of ">".
IouExceeds_GE(box_i, box_j, thr) ==
    LET inter == Intersection(box_i, box_j)
        union_area == UnionArea(box_i, box_j)
    IN  IF union_area > 0 THEN inter * 1000 >= thr * union_area
        ELSE IF union_area < 0 THEN inter * 1000 <= thr * union_area
        ELSE inter > 0

\* lines 332-334: float iou = intersection / union_area; iou > threshold.
\* The float division is compared exactly: for union_area > 0 the quotient
\* exceeds thr/1000 iff inter*1000 > thr*union_area; for union_area < 0 (boxes
\* of negative extent) the inequality flips; 0/0 is NaN, which exceeds nothing;
\* x/0 with x > 0 is +infinity, which exceeds every threshold.
IouExceeds(box_i, box_j, thr) ==
    LET inter == Intersection(box_i, box_j)
        union_area == UnionArea(box_i, box_j)
    IN  IF union_area > 0 THEN inter * 1000 > thr * union_area
        ELSE IF union_area < 0 THEN inter * 1000 < thr * union_area
        ELSE inter > 0

\* The permutations of 1..n
Perms(n) ==
    {p \in [1..n -> 1..n] : \A a, b \in 1..n : a # b => p[a] # p[b]}

\* The mutant of SortedIndices: ascending confidence.
SortedIndices_Ascending(bs) ==
    {p \in Perms(Len(bs)) :
        \A k \in 1..(Len(bs) - 1) :
            bs[p[k]].confidence <= bs[p[k + 1]].confidence}

\* lines 297-303: std::iota, then std::sort by descending confidence.
\* std::sort is not a stable sort: every permutation that is ordered by the
\* comparator is a possible outcome.
SortedIndices(bs) ==
    {p \in Perms(Len(bs)) :
        \A k \in 1..(Len(bs) - 1) :
            bs[p[k]].confidence >= bs[p[k + 1]].confidence}

\* The mutant of InnerStart: the inner loop skips the next candidate.
InnerStart_Skip(i) == i + 2

\* line 314: for (size_t j = i + 1; ...)
InnerStart(i) == i + 1

\* lines 314-337: the inner loop of nms, from position j
RECURSIVE NmsInner(_, _, _, _, _, _)
NmsInner(bs, idx, thr, i, j, suppressed) ==
    IF j > Len(idx) THEN suppressed
    ELSE LET idx_i == idx[i]
             idx_j == idx[j]
         IN  IF suppressed[idx_j]
             THEN NmsInner(bs, idx, thr, i, j + 1, suppressed)
             ELSE IF IouExceeds(bs[idx_i], bs[idx_j], thr)
                  THEN NmsInner(bs, idx, thr, i, j + 1,
                                [suppressed EXCEPT ![idx_j] = TRUE])
                  ELSE NmsInner(bs, idx, thr, i, j + 1, suppressed)

\* lines 308-338: the outer loop of nms, from position i
RECURSIVE NmsOuter(_, _, _, _, _, _)
NmsOuter(bs, idx, thr, i, suppressed, kept) ==
    IF i > Len(idx) THEN kept
    ELSE IF suppressed[idx[i]]
         THEN NmsOuter(bs, idx, thr, i + 1, suppressed, kept)
         ELSE NmsOuter(bs, idx, thr, i + 1,
                       NmsInner(bs, idx, thr, i, InnerStart(i), suppressed),
                       Append(kept, idx[i]))

\* lines 296-341, given the sorted index vector
nms(bs, idx, thr) ==
    NmsOuter(bs, idx, thr, 1, [k \in 1..Len(bs) |-> FALSE], <<>>)


(***************************************************************************)
(* YOLOInference::postprocess_yolo11_detections                            *)
(***************************************************************************)
\* line 353: const int num_classes = 11
num_classes == 11

\* line 11: conf_threshold_(0.5f), in thousandths.  load_config, the only
\* writer of the two thresholds, is never called.
conf_threshold_ == 500

\* line 11: nms_threshold_(0.45f), in thousandths
nms_threshold_ == 450

\* line 388: 1.0f / (1.0f + std::exp(-raw_conf)), in thousandths, tabulated
\* for the raw scores above 1.0 that the model's tensors hold.
Logistic(raw) ==
    CASE raw = 1500 -> 818
      [] raw = 2000 -> 881
      [] raw = 3000 -> 953
      [] OTHER -> 999

\* The mutant of ClassConf: the raw score is used as it is.
ClassConf_Raw(raw_conf) == raw_conf

\* line 388: conf = raw_conf > 1.0f ? logistic(raw_conf) : raw_conf
ClassConf(raw_conf) ==
    IF raw_conf > 1000 THEN Logistic(raw_conf) ELSE raw_conf

\* The mutant of TensorAt: the [detections][attributes] layout of the older
\* postprocess_detections.
TensorAt_RowMajor(data, attr, nd, i) == data[(i - 1) * (4 + num_classes) + attr + 1]

\* lines 376-379, 386: output_data[attr * num_detections + i], i from 1 here
TensorAt(data, attr, nd, i) == data[attr * nd + i]

\* lines 382-393: the best-class loop from class c on; best is
\* <<max_conf, best_class>>, updated on a strictly greater score only.
RECURSIVE BestClassFrom(_, _, _, _, _)
BestClassFrom(data, nd, i, c, best) ==
    IF c >= num_classes THEN best
    ELSE LET conf == ClassConf(TensorAt(data, 4 + c, nd, i))
         IN  IF conf > best[1]
             THEN BestClassFrom(data, nd, i, c + 1, <<conf, c>>)
             ELSE BestClassFrom(data, nd, i, c + 1, best)

\* lines 382-383: float max_conf = 0.0f; int best_class = -1
BestClass(data, nd, i) == BestClassFrom(data, nd, i, 0, <<0, -1>>)

\* lines 440-458
map_doclayout_to_class(class_id) ==
    CASE class_id = 0 -> "caption"
      [] class_id = 1 -> "footnote"
      [] class_id = 2 -> "formula"
      [] class_id = 3 -> "list"
      [] class_id = 4 -> "footer"
      [] class_id = 5 -> "header"
      [] class_id = 6 -> "figure"
      [] class_id = 7 -> "paragraph_title"
      [] class_id = 8 -> "table"
      [] class_id = 9 -> "text"
      [] class_id = 10 -> "title"
      [] OTHER -> "text"

\* The mutant of PassesThreshold: no candidate is filtered.
PassesThreshold_All(max_conf) == TRUE

\* line 396: if (max_conf < conf_threshold_) continue;
PassesThreshold(max_conf) == ~(max_conf < conf_threshold_)

\* The mutant of DecodeBox: both axes are scaled by scale_x.
DecodeBox_ScaleX(data, nd, sx, sy, i) ==
    LET x_center == TensorAt(data, 0, nd, i)
        y_center == TensorAt(data, 1, nd, i)
        width == TensorAt(data, 2, nd, i)
        height == TensorAt(data, 3, nd, i)
        best == BestClass(data, nd, i)
    IN  BBox((2 * x_center - width) * sx, (2 * y_center - height) * sx,
             (2 * x_center + width) * sx, (2 * y_center + height) * sx,
             best[1], best[2], map_doclayout_to_class(best[2]))

\* lines 376-408: the BBox of candidate i, corners in half pixels
DecodeBox(data, nd, sx, sy, i) ==
    LET x_center == TensorAt(data, 0, nd, i)
        y_center == TensorAt(data, 1, nd, i)
        width == TensorAt(data, 2, nd, i)
        height == TensorAt(data, 3, nd, i)
        best == BestClass(data, nd, i)
    IN  BBox((2 * x_center - width) * sx, (2 * y_center - height) * sy,
             (2 * x_center + width) * sx, (2 * y_center + height) * sy,
             best[1], best[2], map_doclayout_to_class(best[2]))

\* lines 374-411: the candidate loop from candidate i on
RECURSIVE DecodeFrom(_, _, _, _, _, _)
DecodeFrom(data, nd, sx, sy, i, acc) ==
    IF i > nd THEN acc
    ELSE IF PassesThreshold(BestClass(data, nd, i)[1])
         THEN DecodeFrom(data, nd, sx, sy, i + 1,
                         Append(acc, DecodeBox(data, nd, sx, sy, i)))
         ELSE DecodeFrom(data, nd, sx, sy, i + 1, acc)

\* lines 416-419: final_boxes
FinalBoxes(bs, kept) == [k \in 1..Len(kept) |-> bs[kept[k]]]


(***************************************************************************)
(* PDFProcessor::detect_tables_on_page (the USE_MUPDF build), from the     *)
(* text blocks of the page on.                                             *)
(***************************************************************************)
\* mupdf fz_rect, as used at lines 513-522
fz_rect(x0, y0, x1, y1) == [x0 |-> x0, y0 |-> y0, x1 |-> x1, y1 |-> y1]

\* cv::Rect, as built at lines 574-579
Rect(x, y, width, height) == [x |-> x, y |-> y, width |-> width, height |-> height]

Abs(v) == IF v < 0 THEN -v ELSE v

\* pdf_processor.cpp line 528: const float alignment_tolerance = 10.0f
alignment_tolerance == 10

\* pdf_processor.hpp line 65: int dpi_ = 100, the default of main's --dpi
dpi_ == 100

\* The mutant of Aligned: "<=" in place of "<".
Aligned_LE(column, block) == Abs(column[1].x0 - block.x0) <= alignment_tolerance

\* lines 538-539: x_diff = |column[0].x0 - block.x0|; x_diff < alignment_tolerance
Aligned(column, block) == Abs(column[1].x0 - block.x0) < alignment_tolerance

\* lines 536-545: the first column from k on that the block is aligned with,
\* 0 when there is none
RECURSIVE FindColumn(_, _, _)
FindColumn(columns, block, k) ==
    IF k > Len(columns) THEN 0
    ELSE IF Len(columns[k]) > 0 /\ Aligned(columns[k], block) THEN k
    ELSE FindColumn(columns, block, k + 1)

\* lines 533-550: one pass of the grouping loop
AssignBlock(columns, block) ==
    LET k == FindColumn(columns, block, 1)
    IN  IF k # 0 THEN [columns EXCEPT ![k] = Append(@, block)]
        ELSE Append(columns, <<block>>)

\* lines 531-550: the grouping loop from block i on
RECURSIVE GroupColumns(_, _, _)
GroupColumns(blocks, i, columns) ==
    IF i > Len(blocks) THEN columns
    ELSE GroupColumns(blocks, i + 1, AssignBlock(columns, blocks[i]))

\* lines 553-558
ValidColumns(columns) ==
    Cardinality({k \in 1..Len(columns) : Len(columns[k]) >= 2})

\* lines 562-570: the running minimum or maximum of one coordinate, from
\* block i on
RECURSIVE FoldExtent(_, _, _, _, _)
FoldExtent(blocks, i, field, acc, isMin) ==
    IF i > Len(blocks) THEN acc
    ELSE FoldExtent(blocks, i + 1, field,
                    IF isMin THEN Min(acc, blocks[i][field])
                    ELSE Max(acc, blocks[i][field]),
                    isMin)

\* The exponent of the leading bit of n >= 1
RECURSIVE FloorLog2(_)
FloorLog2(n) == IF n <= 1 THEN 0 ELSE 1 + FloorLog2(n \div 2)

\* line 573: float scale = dpi_ / 72.0f.  The quotient rounded to the 24 bits
\* of a float, in units of 2^-23 (the quotient lies in [1, 2) for the dpi_
\* of the model).
ScaleBits == (dpi_ * 2^23 + 36) \div 72

\* lines 574-578: static_cast<int>(v * scale) for v >= 0 an integer-valued
\* float.  whole and frac are the exact product in units of 2^-23, computed
\* in two halves of ScaleBits; the float product keeps 24 bits, so it
\* reaches whole + 1 exactly when frac rounds up to 1 (a tie goes to the even
\* mantissa, which is the upper one); the cast truncates.
FloatMulTrunc(v) ==
    LET A == v * (ScaleBits \div 4096)
        B == v * (ScaleBits % 4096)
        low == (A % 2048) * 4096 + B
        whole == A \div 2048 + low \div 2^23
        frac == low % 2^23
        e == FloorLog2(whole)
    IN  IF whole >= 1 /\ e >= 1 /\ frac >= 2^23 - 2^(e - 1)
        THEN whole + 1
        ELSE whole

\* lines 574-578 for either sign: the cast truncates towards zero
ScaleToInt(v) == IF v >= 0 THEN FloatMulTrunc(v) ELSE -FloatMulTrunc(-v)

\* lines 562-579: the rectangle around all blocks
TableRect(blocks) ==
    LET min_x == FoldExtent(blocks, 1, "x0", 1000000, TRUE)
        min_y == FoldExtent(blocks, 1, "y0", 1000000, TRUE)
        max_x == FoldExtent(blocks, 1, "x1", 0, FALSE)
        max_y == FoldExtent(blocks, 1, "y1", 0, FALSE)
    IN  Rect(ScaleToInt(min_x), ScaleToInt(min_y),
             ScaleToInt(max_x - min_x), ScaleToInt(max_y - min_y))

\* lines 526-583: table_regions for the text blocks of a page
detect_tables_on_page(blocks) ==
    IF Len(blocks) >= 6
    THEN IF ValidColumns(GroupColumns(blocks, 1, <<>>)) >= 2
         THEN <<TableRect(blocks)>>
         ELSE <<>>
    ELSE <<>>

(***************************************************************************)
(* PDFProcessor::is_region_overlapping_table                               *)
(***************************************************************************)
\* line 611: cv::Rect operator& (OpenCV): the common part of two rectangles,
\* the empty Rect() when they have none
RectAnd(a, b) ==
    LET x1 == Max(a.x, b.x)
        y1 == Max(a.y, b.y)
        w == Min(a.x + a.width, b.x + b.width) - x1
        h == Min(a.y + a.height, b.y + b.height) - y1
    IN  IF w <= 0 \/ h <= 0 THEN Rect(0, 0, 0, 0) ELSE Rect(x1, y1, w, h)

\* cv::Rect::area(), lines 612 and 614
area(r) == r.width * r.height

\* line 617: the float 0.3f, in units of 2^-25
ThresholdBits == (3 * 2^25 + 5) \div 10

\* <<floor(a * 2^n / b), remainder>> by long division, from the quotient q
\* and the remainder r reached so far
RECURSIVE ShiftDiv(_, _, _, _)
ShiftDiv(q, r, b, n) ==
    IF n = 0 THEN <<q, r>>
    ELSE IF 2 * r >= b THEN ShiftDiv(2 * q + 1, 2 * r - b, b, n - 1)
    ELSE ShiftDiv(2 * q, 2 * r, b, n - 1)

\* The mutant of OverlapExceeds: ">=" in place of ">".
OverlapExceeds_GE(inter_area, region_area) ==
    IF region_area = 0 THEN TRUE
    ELSE IF region_area < 0 THEN FALSE
    ELSE IF inter_area >= region_area THEN TRUE
    ELSE LET d == ShiftDiv(0, inter_area, region_area, 26)
         IN  d[1] >= 2 * ThresholdBits - 1

\* lines 614-617: float(intersection.area()) / float(region.area()) > 0.3f
\* for inter_area > 0 and areas below 2^24, which a float holds exactly.
\* The quotient is rounded to the nearest float, so it exceeds 0.3f exactly
\* when the exact quotient lies above the midpoint of 0.3f and the next
\* float, (2 * ThresholdBits + 1) / 2^26 (at the midpoint the tie goes to
\* the even mantissa, that of 0.3f).  A zero region_area divides to
\* +infinity and a negative one to a negative quotient.
OverlapExceeds(inter_area, region_area) ==
    IF region_area = 0 THEN TRUE
    ELSE IF region_area < 0 THEN FALSE
    ELSE IF inter_area >= region_area THEN TRUE
    ELSE LET d == ShiftDiv(0, inter_area, region_area, 26)
         IN  \/ d[1] > 2 * ThresholdBits + 1
             \/ d[1] = 2 * ThresholdBits + 1 /\ d[2] > 0

\* lines 608-623
is_region_overlapping_table(rgn, tables) ==
    \E k \in 1..Len(tables) :
        LET intersection == RectAnd(rgn, tables[k])
        IN  /\ area(intersection) > 0
            /\ OverlapExceeds(area(intersection), area(rgn))

(***************************************************************************)
(* TextCorrector.  A std::string is a sequence of one-character strings    *)
(* (a character outside ASCII is one element, named by its code point).    *)
(***************************************************************************)
\* text_corrector.cpp lines 96-231: basic_fixes_ as initialize_corrections
\* lists it; of two entries with the same key the unordered_map keeps the
\* first.
BuiltinFixes ==
    <<
      <<<<"r", "n">>, <<"m">>>>,
      <<<<"v", "v">>, <<"w">>>>,
      <<<<"i", "i">>, <<"l", "l">>>>,
      <<<<"o", "o">>, <<"c", "o">>>>,
      <<<<"c", "l">>, <<"d">>>>,
      <<<<"0">>, <<"O">>>>,
      <<<<"1">>, <<"l">>>>,
      <<<<"5">>, <<"S">>>>,
      <<<<"8">>, <<"B">>>>,
      <<<<"6">>, <<"G">>>>,
      <<<<"l">>, <<"I">>>>,
      <<<<"o">>, <<"0">>>>,
      <<<<"S">>, <<"5">>>>,
      <<<<"B">>, <<"8">>>>,
      <<<<"G">>, <<"6">>>>,
      <<<<"r", "r", "i">>, <<"m">>>>,
      <<<<"n", "n">>, <<"n">>>>,
      <<<<"u", "r">>, <<"n">>>>,
      <<<<"n", "i">>, <<"m">>>>,
      <<<<"i", "u">>, <<"n">>>>,
      <<<<"f", "i">>, <<"h">>>>,
      <<<<"l", "i">>, <<"h">>>>,
      <<<<"t", "i">>, <<"h">>>>,
      <<<<"r", "i">>, <<"n">>>>,
      <<<<"r", "r">>, <<"n">>>>,
      <<<<"c", "c">>, <<"c">>>>,
      <<<<"e", "e">>, <<"e">>>>,
      <<<<"t", "t">>, <<"t">>>>,
      <<<<"p", "p">>, <<"p">>>>,
      <<<<"b", "b">>, <<"b">>>>,
      <<<<"d", "d">>, <<"d">>>>,
      <<<<"g", "g">>, <<"g">>>>,
      <<<<"f", "f">>, <<"f">>>>,
      <<<<"s", "s">>, <<"s">>>>,
      <<<<"z", "z">>, <<"z">>>>,
      <<<<"0", "n", "e">>, <<"o", "n", "e">>>>,
      <<<<"1", "i", "k", "e">>, <<"l", "i", "k", "e">>>>,
      <<<<"5", "a", "m", "e">>, <<"s", "a", "m", "e">>>>,
      <<<<"8", "e", "s", "t">>, <<"b", "e", "s", "t">>>>,
      <<<<"6", "o", "o", "d">>, <<"g", "o", "o", "d">>>>,
      <<<<"1", "e", "f", "t">>, <<"l", "e", "f", "t">>>>,
      <<<<"r", "1", "g", "h", "t">>, <<"r", "i", "g", "h", "t">>>>,
      <<<<"w", "0", "r", "d">>, <<"w", "o", "r", "d">>>>,
      <<<<"n", "u", "m", "b", "3", "r">>, <<"n", "u", "m", "b", "e", "r">>>>,
      <<<<"t", "1", "m", "e">>, <<"t", "i", "m", "e">>>>,
      <<<<"p", "1", "a", "c", "e">>, <<"p", "l", "a", "c", "e">>>>,
      <<<<"0", "t", "h", "e", "r">>, <<"o", "t", "h", "e", "r">>>>,
      <<<<"1", "a", "r", "g", "e">>, <<"l", "a", "r", "g", "e">>>>,
      <<<<"5", "m", "a", "l", "l">>, <<"s", "m", "a", "l", "l">>>>,
      <<<<"w", "0", "r", "k">>, <<"w", "o", "r", "k">>>>,
      <<<<"s", "t", "0", "p">>, <<"s", "t", "o", "p">>>>,
      <<<<"t", "l", "i", "e">>, <<"t", "h", "e">>>>,
      <<<<"t", "l", "l", "e">>, <<"t", "h", "e">>>>,
      <<<<"t", "1", "1", "e">>, <<"t", "h", "e">>>>,
      <<<<"t", "1", "l", "e">>, <<"t", "h", "e">>>>,
      <<<<"a", "n", "c", "i">>, <<"a", "n", "d">>>>,
      <<<<"a", "n", "c", "t">>, <<"a", "n", "d">>>>,
      <<<<"a", "n", "c", "l">>, <<"a", "n", "d">>>>,
      <<<<"a", "r", "i", "d">>, <<"a", "n", "d">>>>,
      <<<<"w", "i", "t", "l", "i">>, <<"w", "i", "t", "h">>>>,
      <<<<"w", "i", "t", "l", "l">>, <<"w", "i", "t", "h">>>>,
      <<<<"w", "1", "t", "h">>, <<"w", "i", "t", "h">>>>,
      <<<<"w", "i", "1", "h">>, <<"w", "i", "t", "h">>>>,
      <<<<"t", "l", "i", "a", "t">>, <<"t", "h", "a", "t">>>>,
      <<<<"t", "1", "1", "a", "t">>, <<"t", "h", "a", "t">>>>,
      <<<<"t", "l", "1", "a", "t">>, <<"t", "h", "a", "t">>>>,
      <<<<"t", "l", "l", "e", "t">>, <<"t", "h", "a", "t">>>>,
      <<<<"w", "l", "i", "e", "n">>, <<"w", "h", "e", "n">>>>,
      <<<<"w", "1", "1", "e", "n">>, <<"w", "h", "e", "n">>>>,
      <<<<"w", "l", "1", "e", "n">>, <<"w", "h", "e", "n">>>>,
      <<<<"w", "h", "e", "r", "i">>, <<"w", "h", "e", "n">>>>,
      <<<<"w", "l", "i", "e", "r", "e">>, <<"w", "h", "e", "r", "e">>>>,
      <<<<"w", "1", "1", "e", "r", "e">>, <<"w", "h", "e", "r", "e">>>>,
      <<<<"w", "l", "1", "e", "r", "e">>, <<"w", "h", "e", "r", "e">>>>,
      <<<<"w", "l", "l", "e", "r", "e">>, <<"w", "h", "e", "r", "e">>>>,
      <<<<"w", "l", "i", "a", "t">>, <<"w", "h", "a", "t">>>>,
      <<<<"w", "1", "1", "a", "t">>, <<"w", "h", "a", "t">>>>,
      <<<<"w", "l", "1", "a", "t">>, <<"w", "h", "a", "t">>>>,
      <<<<"w", "l", "l", "a", "t">>, <<"w", "h", "a", "t">>>>,
      <<<<"w", "l", "i", "y">>, <<"w", "h", "y">>>>,
      <<<<"w", "1", "1", "y">>, <<"w", "h", "y">>>>,
      <<<<"w", "l", "1", "y">>, <<"w", "h", "y">>>>,
      <<<<"w", "h", "v">>, <<"w", "h", "y">>>>,
      <<<<"l", "i", "o", "w">>, <<"h", "o", "w">>>>,
      <<<<"l", "1", "o", "w">>, <<"h", "o", "w">>>>,
      <<<<"l", "l", "0", "w">>, <<"h", "o", "w">>>>,
      <<<<"h", "0", "w">>, <<"h", "o", "w">>>>,
      <<<<"w", "l", "i", "o">>, <<"w", "h", "o">>>>,
      <<<<"w", "1", "1", "o">>, <<"w", "h", "o">>>>,
      <<<<"w", "l", "1", "o">>, <<"w", "h", "o">>>>,
      <<<<"w", "h", "0">>, <<"w", "h", "o">>>>,
      <<<<".">>, <<",">>>>,
      <<<<",">>, <<".">>>>,
      <<<<";">>, <<":">>>>,
      <<<<":">>, <<";">>>>,
      <<<<"'">>, <<"'">>>>,
      <<<<"\"">>, <<"\"">>>>,
      <<<<"U+2014">>, <<"-">>>>,
      <<<<"U+2013">>, <<"-">>>>,
      <<<<"U+2026">>, <<".", ".", ".">>>>,
      <<<<"T", "l", "i", "e">>, <<"T", "h", "e">>>>,
      <<<<"A", "n", "c", "i">>, <<"A", "n", "d">>>>,
      <<<<"W", "i", "t", "l", "i">>, <<"W", "i", "t", "h">>>>,
      <<<<"T", "l", "i", "a", "t">>, <<"T", "h", "a", "t">>>>,
      <<<<"W", "l", "i", "e", "n">>, <<"W", "h", "e", "n">>>>,
      <<<<"W", "l", "i", "e", "r", "e">>, <<"W", "h", "e", "r", "e">>>>,
      <<<<"W", "l", "i", "a", "t">>, <<"W", "h", "a", "t">>>>,
      <<<<"W", "l", "i", "y">>, <<"W", "h", "y">>>>,
      <<<<"L", "i", "o", "w">>, <<"H", "o", "w">>>>,
      <<<<"W", "l", "i", "o">>, <<"W", "h", "o">>>>,
      <<<<"T", "l", "i", "i", "s">>, <<"T", "h", "i", "s">>>>,
      <<<<"T", "l", "i", "e", "y">>, <<"T", "h", "e", "y">>>>,
      <<<<"T", "l", "i", "e", "s", "e">>, <<"T", "h", "e", "s", "e">>>>,
      <<<<"T", "l", "i", "o", "s", "e">>, <<"T", "h", "o", "s", "e">>>>,
      <<<<"T", "l", "i", "r", "o", "u", "g", "h">>, <<"T", "h", "r", "o", "u", "g", "h">>>>,
      <<<<"T", "l", "i", "r", "e", "e">>, <<"T", "h", "r", "e", "e">>>>,
      <<<<"T", "l", "i", "i", "r", "t", "y">>, <<"T", "h", "i", "r", "t", "y">>>>,
      <<<<"T", "l", "i", "i", "n", "k">>, <<"T", "h", "i", "n", "k">>>>,
      <<<<"r", "n", "a", "t", "c", "h">>, <<"m", "a", "t", "c", "h">>>>,
      <<<<"v", "v", "o", "r", "k">>, <<"w", "o", "r", "k">>>>,
      <<<<"c", "o", "r", "n", "p", "a", "n", "y">>, <<"c", "o", "m", "p", "a", "n", "y">>>>,
      <<<<"r", "n", "o", "n", "e", "y">>, <<"m", "o", "n", "e", "y">>>>,
      <<<<"r", "n", "a", "n", "a", "g", "e">>, <<"m", "a", "n", "a", "g", "e">>>>,
      <<<<"r", "n", "a", "r", "k", "e", "t">>, <<"m", "a", "r", "k", "e", "t">>>>,
      <<<<"t", "i", "l", "i", "e">>, <<"t", "i", "t", "l", "e">>>>,
      <<<<"n", "i", "e", "e", "t">>, <<"m", "e", "e", "t">>>>,
      <<<<"r", "n", "u", "s", "t">>, <<"m", "u", "s", "t">>>>,
      <<<<"v", "v", "i", "l", "l">>, <<"w", "i", "l", "l">>>>,
      <<<<"v", "v", "i", "t", "h">>, <<"w", "i", "t", "h">>>>,
      <<<<"v", "v", "h", "e", "n">>, <<"w", "h", "e", "n">>>>,
      <<<<"v", "v", "h", "e", "r", "e">>, <<"w", "h", "e", "r", "e">>>>,
      <<<<"v", "v", "h", "a", "t">>, <<"w", "h", "a", "t">>>>,
      <<<<"v", "v", "h", "y">>, <<"w", "h", "y">>>>,
      <<<<"r", "n", "i", "g", "h", "t">>, <<"m", "i", "g", "h", "t">>>>,
      <<<<"r", "n", "o", "r", "e">>, <<"m", "o", "r", "e">>>>,
      <<<<"r", "n", "a", "r", "k">>, <<"m", "a", "r", "k">>>>,
      <<<<"r", "n", "a", "k", "e">>, <<"m", "a", "k", "e">>>>,
      <<<<"r", "n", "a", "n", "y">>, <<"m", "a", "n", "y">>>>,
      <<<<"r", "n", "a", "i", "n">>, <<"m", "a", "i", "n">>>>,
      <<<<"r", "n", "a", "l", "e">>, <<"m", "a", "l", "e">>>>,
      <<<<"r", "n", "a", "i", "l">>, <<"m", "a", "i", "l">>>>,
      <<<<"r", "n", "a", "p">>, <<"m", "a", "p">>>>,
      <<<<"r", "n", "a", "s", "s">>, <<"m", "a", "s", "s">>>>,
      <<<<"r", "n", "a", "s", "t", "e", "r">>, <<"m", "a", "s", "t", "e", "r">>>>,
      <<<<"r", "n", "a", "t", "t", "e", "r">>, <<"m", "a", "t", "t", "e", "r">>>>,
      <<<<"r", "n", "a", "x">>, <<"m", "a", "x">>>>,
      <<<<"r", "n", "a", "y">>, <<"m", "a", "y">>>>,
      <<<<"r", "n", "e", "a", "n">>, <<"m", "e", "a", "n">>>>,
      <<<<"r", "n", "e", "a", "s", "u", "r", "e">>, <<"m", "e", "a", "s", "u", "r", "e">>>>,
      <<<<"r", "n", "e", "e", "t">>, <<"m", "e", "e", "t">>>>,
      <<<<"r", "n", "e", "m", "b", "e", "r">>, <<"m", "e", "m", "b", "e", "r">>>>,
      <<<<"r", "n", "e", "n", "t", "i", "o", "n">>, <<"m", "e", "n", "t", "i", "o", "n">>>>,
      <<<<"r", "n", "e", "t", "h", "o", "d">>, <<"m", "e", "t", "h", "o", "d">>>>,
      <<<<"r", "n", "i", "d", "d", "l", "e">>, <<"m", "i", "d", "d", "l", "e">>>>,
      <<<<"r", "n", "i", "l", "e">>, <<"m", "i", "l", "e">>>>,
      <<<<"r", "n", "i", "l", "l", "i", "o", "n">>, <<"m", "i", "l", "l", "i", "o", "n">>>>,
      <<<<"r", "n", "i", "n", "d">>, <<"m", "i", "n", "d">>>>,
      <<<<"r", "n", "i", "n", "e">>, <<"m", "i", "n", "e">>>>,
      <<<<"r", "n", "i", "n", "u", "s">>, <<"m", "i", "n", "u", "s">>>>,
      <<<<"r", "n", "i", "s", "s">>, <<"m", "i", "s", "s">>>>,
      <<<<"r", "n", "i", "x">>, <<"m", "i", "x">>>>,
      <<<<"r", "n", "o", "d", "e", "l">>, <<"m", "o", "d", "e", "l">>>>,
      <<<<"r", "n", "o", "d", "e", "r">>, <<"m", "o", "d", "e", "r", "n">>>>,
      <<<<"r", "n", "o", "r", "n", "i", "n", "g">>, <<"m", "o", "r", "n", "i", "n", "g">>>>,
      <<<<"r", "n", "o", "s", "t">>, <<"m", "o", "s", "t">>>>,
      <<<<"r", "n", "o", "t", "h", "e", "r">>, <<"m", "o", "t", "h", "e", "r">>>>,
      <<<<"r", "n", "o", "t", "i", "o", "n">>, <<"m", "o", "t", "i", "o", "n">>>>,
      <<<<"r", "n", "o", "u", "n", "t">>, <<"m", "o", "u", "n", "t">>>>,
      <<<<"r", "n", "o", "u", "s", "e">>, <<"m", "o", "u", "s", "e">>>>,
      <<<<"r", "n", "o", "v", "e">>, <<"m", "o", "v", "e">>>>,
      <<<<"r", "n", "u", "c", "h">>, <<"m", "u", "c", "h">>>>,
      <<<<"r", "n", "u", "s", "i", "c">>, <<"m", "u", "s", "i", "c">>>>,
      <<<<"v", "v", "a", "n", "t">>, <<"w", "a", "n", "t">>>>,
      <<<<"v", "v", "a", "r">>, <<"w", "a", "r">>>>,
      <<<<"v", "v", "a", "r", "m">>, <<"w", "a", "r", "m">>>>,
      <<<<"v", "v", "a", "s", "h">>, <<"w", "a", "s", "h">>>>,
      <<<<"v", "v", "a", "s", "t", "e">>, <<"w", "a", "s", "t", "e">>>>,
      <<<<"v", "v", "a", "t", "c", "h">>, <<"w", "a", "t", "c", "h">>>>,
      <<<<"v", "v", "a", "t", "e", "r">>, <<"w", "a", "t", "e", "r">>>>,
      <<<<"v", "v", "a", "v", "e">>, <<"w", "a", "v", "e">>>>,
      <<<<"v", "v", "a", "y">>, <<"w", "a", "y">>>>,
      <<<<"v", "v", "e">>, <<"w", "e">>>>,
      <<<<"v", "v", "e", "a", "k">>, <<"w", "e", "a", "k">>>>,
      <<<<"v", "v", "e", "a", "r">>, <<"w", "e", "a", "r">>>>,
      <<<<"v", "v", "e", "a", "t", "h", "e", "r">>, <<"w", "e", "a", "t", "h", "e", "r">>>>,
      <<<<"v", "v", "e", "b">>, <<"w", "e", "b">>>>,
      <<<<"v", "v", "e", "e", "k">>, <<"w", "e", "e", "k">>>>,
      <<<<"v", "v", "e", "i", "g", "h", "t">>, <<"w", "e", "i", "g", "h", "t">>>>,
      <<<<"v", "v", "e", "l", "c", "o", "m", "e">>, <<"w", "e", "l", "c", "o", "m", "e">>>>,
      <<<<"v", "v", "e", "l", "l">>, <<"w", "e", "l", "l">>>>,
      <<<<"v", "v", "e", "s", "t">>, <<"w", "e", "s", "t">>>>,
      <<<<"v", "v", "e", "t">>, <<"w", "e", "t">>>>,
      <<<<"v", "v", "h", "i", "t", "e">>, <<"w", "h", "i", "t", "e">>>>,
      <<<<"v", "v", "h", "o", "l", "e">>, <<"w", "h", "o", "l", "e">>>>,
      <<<<"v", "v", "i", "d", "e">>, <<"w", "i", "d", "e">>>>,
      <<<<"v", "v", "i", "n">>, <<"w", "i", "n">>>>,
      <<<<"v", "v", "i", "n", "d">>, <<"w", "i", "n", "d">>>>,
      <<<<"v", "v", "i", "n", "d", "o", "w">>, <<"w", "i", "n", "d", "o", "w">>>>,
      <<<<"v", "v", "i", "n", "t", "e", "r">>, <<"w", "i", "n", "t", "e", "r">>>>,
      <<<<"v", "v", "i", "s", "e">>, <<"w", "i", "s", "e">>>>,
      <<<<"v", "v", "o", "m", "a", "n">>, <<"w", "o", "m", "a", "n">>>>,
      <<<<"v", "v", "o", "m", "e", "n">>, <<"w", "o", "m", "e", "n">>>>,
      <<<<"v", "v", "o", "n">>, <<"w", "o", "n">>>>,
      <<<<"v", "v", "o", "o", "d">>, <<"w", "o", "o", "d">>>>,
      <<<<"v", "v", "o", "r", "d">>, <<"w", "o", "r", "d">>>>,
      <<<<"v", "v", "o", "r", "l", "d">>, <<"w", "o", "r", "l", "d">>>>,
      <<<<"v", "v", "o", "r", "r", "y">>, <<"w", "o", "r", "r", "y">>>>,
      <<<<"v", "v", "o", "r", "t", "h">>, <<"w", "o", "r", "t", "h">>>>,
      <<<<"v", "v", "o", "u", "l", "d">>, <<"w", "o", "u", "l", "d">>>>,
      <<<<"v", "v", "r", "i", "t", "e">>, <<"w", "r", "i", "t", "e">>>>,
      <<<<"v", "v", "r", "o", "n", "g">>, <<"w", "r", "o", "n", "g">>>>,
      <<<<"A", "a", "d", "i", "l", "e">>, <<"A", "g", "i", "l", "e">>>>,
      <<<<"a", "a", "d", "i", "l", "e">>, <<"a", "g", "i", "l", "e">>>>,
      <<<<"T", "e", "s", "t", "i", "n", "a">>, <<"T", "e", "s", "t", "i", "n", "g">>>>,
      <<<<"t", "e", "s", "t", "i", "n", "a">>, <<"t", "e", "s", "t", "i", "n", "g">>>>,
      <<<<"E", "n", "t", "r", "v">>, <<"E", "n", "t", "r", "y">>>>,
      <<<<"e", "n", "t", "r", "v">>, <<"e", "n", "t", "r", "y">>>>,
      <<<<"l", "n", "t", "r", "o", "d", "u", "c", "t", "i", "o", "n">>, <<"I", "n", "t", "r", "o", "d", "u", "c", "t", "i", "o", "n">>>>,
      <<<<"R", "e", "g", "u", "i", "r", "e", "m", "e", "n", "t", "s">>, <<"R", "e", "q", "u", "i", "r", "e", "m", "e", "n", "t", "s">>>>,
      <<<<"r", "e", "g", "u", "i", "r", "e", "m", "e", "n", "t", "s">>, <<"r", "e", "q", "u", "i", "r", "e", "m", "e", "n", "t", "s">>>>,
      <<<<"D", "e", "v", "e", "l", "o", "o", "m", "e", "n", "t">>, <<"D", "e", "v", "e", "l", "o", "p", "m", "e", "n", "t">>>>,
      <<<<"d", "e", "v", "e", "l", "o", "o", "m", "e", "n", "t">>, <<"d", "e", "v", "e", "l", "o", "p", "m", "e", "n", "t">>>>,
      <<<<"M", "a", "n", "a", "a", "e", "m", "e", "n", "t">>, <<"M", "a", "n", "a", "g", "e", "m", "e", "n", "t">>>>,
      <<<<"m", "a", "n", "a", "a", "e", "m", "e", "n", "t">>, <<"m", "a", "n", "a", "g", "e", "m", "e", "n", "t">>>>,
      <<<<"O", "r", "q", "a", "n", "i", "z", "a", "t", "i", "o", "n">>, <<"O", "r", "g", "a", "n", "i", "z", "a", "t", "i", "o", "n">>>>,
      <<<<"o", "r", "q", "a", "n", "i", "z", "a", "t", "i", "o", "n">>, <<"o", "r", "g", "a", "n", "i", "z", "a", "t", "i", "o", "n">>>>,
      <<<<"B", "a", "c", "k", "a", "r", "o", "u", "n", "d">>, <<"B", "a", "c", "k", "g", "r", "o", "u", "n", "d">>>>,
      <<<<"b", "a", "c", "k", "a", "r", "o", "u", "n", "d">>, <<"b", "a", "c", "k", "g", "r", "o", "u", "n", "d">>>>,
      <<<<"T", "e", "c", "h", "n", "o", "l", "o", "a", "i", "c", "a", "l">>, <<"T", "e", "c", "h", "n", "o", "l", "o", "g", "i", "c", "a", "l">>>>,
      <<<<"t", "e", "c", "h", "n", "o", "l", "o", "a", "i", "c", "a", "l">>, <<"t", "e", "c", "h", "n", "o", "l", "o", "g", "i", "c", "a", "l">>>>,
      <<<<"P", "r", "o", "g", "r", "a", "r", "n", "m", "i", "n", "g">>, <<"P", "r", "o", "g", "r", "a", "m", "m", "i", "n", "g">>>>,
      <<<<"p", "r", "o", "g", "r", "a", "r", "n", "m", "i", "n", "g">>, <<"p", "r", "o", "g", "r", "a", "m", "m", "i", "n", "g">>>>,
      <<<<"S", "o", "f", "t", "v", "v", "a", "r", "e">>, <<"S", "o", "f", "t", "w", "a", "r", "e">>>>,
      <<<<"s", "o", "f", "t", "v", "v", "a", "r", "e">>, <<"s", "o", "f", "t", "w", "a", "r", "e">>>>,
      <<<<"C", "o", "r", "n", "p", "u", "t", "e", "r">>, <<"C", "o", "m", "p", "u", "t", "e", "r">>>>,
      <<<<"c", "o", "r", "n", "p", "u", "t", "e", "r">>, <<"c", "o", "m", "p", "u", "t", "e", "r">>>>,
      <<<<"S", "y", "s", "t", "e", "r", "n">>, <<"S", "y", "s", "t", "e", "m">>>>,
      <<<<"s", "y", "s", "t", "e", "r", "n">>, <<"s", "y", "s", "t", "e", "m">>>>,
      <<<<"N", "e", "t", "v", "v", "o", "r", "k">>, <<"N", "e", "t", "w", "o", "r", "k">>>>,
      <<<<"n", "e", "t", "v", "v", "o", "r", "k">>, <<"n", "e", "t", "w", "o", "r", "k">>>>,
      <<<<"D", "a", "t", "a", "b", "a", "5", "e">>, <<"D", "a", "t", "a", "b", "a", "s", "e">>>>,
      <<<<"d", "a", "t", "a", "b", "a", "5", "e">>, <<"d", "a", "t", "a", "b", "a", "s", "e">>>>,
      <<<<"A", "l", "g", "o", "r", "l", "t", "h", "m">>, <<"A", "l", "g", "o", "r", "i", "t", "h", "m">>>>,
      <<<<"a", "l", "g", "o", "r", "l", "t", "h", "m">>, <<"a", "l", "g", "o", "r", "i", "t", "h", "m">>>>,
      <<<<"F", "u", "n", "c", "t", "l", "o", "n">>, <<"F", "u", "n", "c", "t", "i", "o", "n">>>>,
      <<<<"f", "u", "n", "c", "t", "l", "o", "n">>, <<"f", "u", "n", "c", "t", "i", "o", "n">>>>,
      <<<<"V", "a", "r", "l", "a", "b", "l", "e">>, <<"V", "a", "r", "i", "a", "b", "l", "e">>>>,
      <<<<"v", "a", "r", "l", "a", "b", "l", "e">>, <<"v", "a", "r", "i", "a", "b", "l", "e">>>>,
      <<<<"S", "t", "r", "l", "n", "g">>, <<"S", "t", "r", "i", "n", "g">>>>,
      <<<<"s", "t", "r", "l", "n", "g">>, <<"s", "t", "r", "i", "n", "g">>>>,
      <<<<"O", "b", "j", "e", "c", "U+0165">>, <<"O", "b", "j", "e", "c", "t">>>>,
      <<<<"o", "b", "j", "e", "c", "U+0165">>, <<"o", "b", "j", "e", "c", "t">>>>,
      <<<<"C", "l", "a", "5", "5">>, <<"C", "l", "a", "s", "s">>>>,
      <<<<"c", "l", "a", "5", "5">>, <<"c", "l", "a", "s", "s">>>>,
      <<<<"M", "e", "t", "h", "o", "c", "l">>, <<"M", "e", "t", "h", "o", "d">>>>,
      <<<<"m", "e", "t", "h", "o", "c", "l">>, <<"m", "e", "t", "h", "o", "d">>>>,
      <<<<"l", "n", "t", "e", "r", "f", "a", "c", "e">>, <<"I", "n", "t", "e", "r", "f", "a", "c", "e">>>>,
      <<<<"M", "o", "d", "u", "l", "U+00E9">>, <<"M", "o", "d", "u", "l", "e">>>>,
      <<<<"m", "o", "d", "u", "l", "U+00E9">>, <<"m", "o", "d", "u", "l", "e">>>>,
      <<<<"r", "e", "c", "i", "e", "v", "e">>, <<"r", "e", "c", "e", "i", "v", "e">>>>,
      <<<<"s", "e", "p", "e", "r", "a", "t", "e">>, <<"s", "e", "p", "a", "r", "a", "t", "e">>>>,
      <<<<"o", "c", "c", "u", "r", "e", "d">>, <<"o", "c", "c", "u", "r", "r", "e", "d">>>>,
      <<<<"d", "e", "f", "i", "n", "a", "t", "e", "l", "y">>, <<"d", "e", "f", "i", "n", "i", "t", "e", "l", "y">>>>,
      <<<<"m", "a", "n", "a", "g", "m", "e", "n", "t">>, <<"m", "a", "n", "a", "g", "e", "m", "e", "n", "t">>>>,
      <<<<"e", "n", "v", "i", "r", "o", "m", "e", "n", "t">>, <<"e", "n", "v", "i", "r", "o", "n", "m", "e", "n", "t">>>>,
      <<<<"a", "c", "c", "o", "m", "o", "d", "a", "t", "e">>, <<"a", "c", "c", "o", "m", "m", "o", "d", "a", "t", "e">>>>,
      <<<<"b", "e", "g", "i", "n", "i", "n", "g">>, <<"b", "e", "g", "i", "n", "n", "i", "n", "g">>>>,
      <<<<"b", "e", "l", "e", "i", "v", "e">>, <<"b", "e", "l", "i", "e", "v", "e">>>>,
      <<<<"o", "c", "c", "a", "s", "s", "i", "o", "n">>, <<"o", "c", "c", "a", "s", "i", "o", "n">>>>,
      <<<<"p", "r", "o", "f", "e", "s", "i", "o", "n", "a", "l">>, <<"p", "r", "o", "f", "e", "s", "s", "i", "o", "n", "a", "l">>>>,
      <<<<"r", "e", "c", "o", "m", "e", "n", "d">>, <<"r", "e", "c", "o", "m", "m", "e", "n", "d">>>>,
      <<<<"n", "e", "c", "c", "e", "s", "s", "a", "r", "y">>, <<"n", "e", "c", "e", "s", "s", "a", "r", "y">>>>,
      <<<<"a", "c", "c", "r", "o", "s", "s">>, <<"a", "c", "r", "o", "s", "s">>>>,
      <<<<"u", "n", "t", "i", "l", "l">>, <<"u", "n", "t", "i", "l">>>>,
      <<<<"t", "h", "i", "e", "r">>, <<"t", "h", "e", "i", "r">>>>,
      <<<<"f", "r", "e", "i", "n", "d">>, <<"f", "r", "i", "e", "n", "d">>>>,
      <<<<"s", "e", "n", "c", "e">>, <<"s", "e", "n", "s", "e">>>>,
      <<<<"c", "a", "l", "e", "n", "d", "e", "r">>, <<"c", "a", "l", "e", "n", "d", "a", "r">>>>,
      <<<<"b", "u", "i", "s", "n", "e", "s", "s">>, <<"b", "u", "s", "i", "n", "e", "s", "s">>>>,
      <<<<"s", "u", "c", "c", "e", "s", "f", "u", "l">>, <<"s", "u", "c", "c", "e", "s", "s", "f", "u", "l">>>>,
      <<<<"t", "o", "m", "o", "r", "o", "w">>, <<"t", "o", "m", "o", "r", "r", "o", "w">>>>,
      <<<<"f", "e", "b", "u", "a", "r", "y">>, <<"f", "e", "b", "r", "u", "a", "r", "y">>>>,
      <<<<"w", "e", "n", "e", "s", "d", "a", "y">>, <<"w", "e", "d", "n", "e", "s", "d", "a", "y">>>>,
      <<<<"w", "i", "e", "g", "h", "t">>, <<"w", "e", "i", "g", "h", "t">>>>,
      <<<<"h", "e", "i", "g", "t", "h">>, <<"h", "e", "i", "g", "h", "t">>>>,
      <<<<"l", "e", "n", "g", "h", "t">>, <<"l", "e", "n", "g", "t", "h">>>>,
      <<<<"k", "n", "o", "w", "l", "e", "g", "e">>, <<"k", "n", "o", "w", "l", "e", "d", "g", "e">>>>,
      <<<<"p", "r", "i", "v", "i", "l", "e", "d", "g", "e">>, <<"p", "r", "i", "v", "i", "l", "e", "g", "e">>>>,
      <<<<"e", "m", "b", "a", "r", "a", "s", "s">>, <<"e", "m", "b", "a", "r", "r", "a", "s", "s">>>>,
      <<<<"q", "g", "o", "v", "e", "r", "n", "a", "n", "c", "e">>, <<"g", "o", "v", "e", "r", "n", "a", "n", "c", "e">>>>,
      <<<<"g", "o", "v", "e", "r", "n", "a", "n", "c", "e">>, <<"g", "o", "v", "e", "r", "n", "a", "n", "c", "e">>>>,
      <<<<"d", "e", "c", "i", "s", "i", "o", "n", "-", "m", "a", "k", "i", "n", "a">>, <<"d", "e", "c", "i", "s", "i", "o", "n", "-", "m", "a", "k", "i", "n", "g">>>>,
      <<<<"f", "u", "n", "d", "i", "n", "a">>, <<"f", "u", "n", "d", "i", "n", "g">>>>,
      <<<<"r", "e", "a", "l", "l", "v">>, <<"r", "e", "a", "l", "l", "y">>>>,
      <<<<"l", "i", "b", "r", "a", "r", "v">>, <<"l", "i", "b", "r", "a", "r", "y">>>>,
      <<<<"f", "u", "l", "l", "v">>, <<"f", "u", "l", "l", "y">>>>,
      <<<<"a", "o", "v", "e", "r", "n", "m", "e", "n", "t">>, <<"g", "o", "v", "e", "r", "n", "m", "e", "n", "t">>>>,
      <<<<"t", "c">>, <<"t", "o">>>>,
      <<<<"S", "t", "r", "a", "t", "e", "q", "y">>, <<"S", "t", "r", "a", "t", "e", "g", "y">>>>,
      <<<<"p", "o", "l", "i", "c", "v">>, <<"p", "o", "l", "i", "c", "y">>>>,
      <<<<"a", "n", "a", "l", "v", "s", "i", "s">>, <<"a", "n", "a", "l", "y", "s", "i", "s">>>>,
      <<<<"r", "e", "s", "e", "a", "r", "c", "l", "i">>, <<"r", "e", "s", "e", "a", "r", "c", "h">>>>,
      <<<<"s", "t", "u", "d", "v">>, <<"s", "t", "u", "d", "y">>>>,
      <<<<"r", "e", "p", "o", "r", "t", "i", "n", "a">>, <<"r", "e", "p", "o", "r", "t", "i", "n", "g">>>>,
      <<<<"m", "e", "e", "t", "i", "n", "a">>, <<"m", "e", "e", "t", "i", "n", "g">>>>,
      <<<<"p", "l", "a", "n", "n", "i", "n", "a">>, <<"p", "l", "a", "n", "n", "i", "n", "g">>>>,
      <<<<"b", "u", "d", "a", "e", "t">>, <<"b", "u", "d", "g", "e", "t">>>>,
      <<<<"p", "r", "o", "i", "e", "c", "t">>, <<"p", "r", "o", "j", "e", "c", "t">>>>,
      <<<<"t", "i", "m", "e", "l", "i", "n", "e", "-">>, <<"T", "i", "m", "e", "l", "i", "n", "e", ":">>>>,
      <<<<"s", "u", "m", "m", "a", "r", "y", "-">>, <<"S", "u", "m", "m", "a", "r", "y", ":">>>>,
      <<<<"b", "a", "c", "k", "g", "r", "o", "u", "n", "d", "-">>, <<"B", "a", "c", "k", "g", "r", "o", "u", "n", "d", ":">>>>,
      <<<<"g", "u", "i", "d", "a", "n", "c", "e", "-">>, <<"G", "u", "i", "d", "a", "n", "c", "e", ":">>>>,
      <<<<"o", "v", "e", "r", "v", "i", "e", "w", "-">>, <<"O", "v", "e", "r", "v", "i", "e", "w", ":">>>>,
      <<<<"c", "o", "n", "c", "l", "u", "s", "i", "o", "n", "-">>, <<"C", "o", "n", "c", "l", "u", "s", "i", "o", "n", ":">>>>,
      <<<<"i", "n", "t", "r", "o", "d", "u", "c", "t", "i", "o", "n", "-">>, <<"I", "n", "t", "r", "o", "d", "u", "c", "t", "i", "o", "n", ":">>>>,
      <<<<"m", "e", "t", "h", "o", "d", "o", "l", "o", "g", "y", "-">>, <<"M", "e", "t", "h", "o", "d", "o", "l", "o", "g", "y", ":">>>>,
      <<<<"r", "e", "s", "u", "l", "t", "s", "-">>, <<"R", "e", "s", "u", "l", "t", "s", ":">>>>,
      <<<<"d", "i", "s", "c", "u", "s", "s", "i", "o", "n", "-">>, <<"D", "i", "s", "c", "u", "s", "s", "i", "o", "n", ":">>>>
    >>

\* text_corrector.hpp line 32: the iteration order of std::unordered_map is
\* unspecified.  This is the order libstdc++ 12 iterates the table in, as
\* positions into BuiltinFixes.
LibstdcxxOrder ==
    <<
      314, 311, 310, 303, 302, 306, 297, 296, 295, 293, 291, 290, 289, 307, 286, 284, 304, 283,
      308, 281, 273, 272, 270, 269, 268, 318, 267, 282, 265, 317, 262, 259, 258, 254, 279, 251,
      312, 250, 248, 246, 244, 243, 240, 238, 276, 236, 235, 230, 253, 228, 225, 224, 223, 220,
      298, 218, 215, 212, 211, 210, 208, 207, 205, 203, 201, 199, 198, 197, 195, 194, 260, 249,
      193, 192, 191, 245, 226, 189, 271, 188, 187, 186, 216, 184, 183, 180, 178, 288, 196, 177,
      315, 175, 237, 173, 172, 264, 234, 171, 275, 182, 170, 168, 266, 167, 166, 190, 169, 164,
      165, 163, 162, 242, 160, 159, 157, 156, 154, 152, 151, 149, 147, 144, 143, 142, 145, 141,
      140, 252, 139, 138, 280, 137, 209, 133, 131, 261, 135, 130, 129, 127, 126, 125, 124, 176,
      123, 150, 122, 278, 120, 146, 119, 118, 255, 117, 179, 113, 112, 227, 110, 109, 200, 107,
      316, 105, 219, 104, 102, 204, 100, 158, 98, 97, 96, 95, 233, 181, 94, 90, 231, 89,
      106, 88, 128, 91, 87, 86, 299, 85, 83, 101, 82, 81, 80, 79, 78, 185, 77, 292,
      257, 256, 76, 75, 73, 277, 239, 72, 71, 70, 69, 161, 136, 68, 67, 66, 65, 111,
      64, 63, 263, 62, 229, 61, 60, 59, 305, 232, 153, 114, 58, 99, 57, 56, 132, 55,
      54, 213, 52, 51, 221, 50, 49, 47, 93, 46, 45, 44, 294, 174, 43, 155, 42, 309,
      41, 217, 116, 40, 39, 38, 37, 241, 53, 36, 74, 35, 33, 108, 32, 31, 48, 30,
      222, 29, 28, 27, 301, 300, 214, 26, 25, 24, 313, 21, 20, 22, 19, 285, 18, 17,
      16, 23, 15, 14, 13, 12, 148, 11, 10, 202, 9, 121, 8, 287, 247, 134, 7, 206,
      6, 115, 92, 84, 5, 4, 103, 3, 34, 2, 274, 1
    >>

Reverse(s) == [k \in 1..Len(s) |-> s[Len(s) + 1 - k]]

\* The iteration orders the model draws from: the library's, the order of
\* the initializer list, and its reverse.
FixOrders ==
    {[k \in 1..Len(LibstdcxxOrder) |-> BuiltinFixes[LibstdcxxOrder[k]]],
     BuiltinFixes,
     Reverse(BuiltinFixes)}

\* std::isspace and the regex class \s, lines 61-69
IsSpace(ch) == ch \in {" ", "\t", "\n", "\r", "\f"}

MatchAt(s, key, p) ==
    /\ p + Len(key) - 1 <= Len(s)
    /\ \A k \in 1..Len(key) : s[p + k - 1] = key[k]

\* line 53: result.find(fix.first, pos); positions are 1-based here and 0
\* stands for npos
Find(s, key, pos) ==
    LET hits == {p \in pos..(Len(s) + 1) : MatchAt(s, key, p)}
    IN  IF hits = {} THEN 0 ELSE CHOOSE p \in hits : \A q \in hits : p <= q

\* line 54: result.replace(pos, fix.first.length(), fix.second)
Replace(s, p, n, val) == SubSeq(s, 1, p - 1) \o val \o SubSeq(s, p + n, Len(s))

\* line 55: pos += fix.second.length()
NextPos(p, val) == p + Len(val)

\* lines 52-56: the replace loop of one rule, from position pos on
RECURSIVE ReplaceAll(_, _, _, _)
ReplaceAll(s, key, val, pos) ==
    LET p == Find(s, key, pos)
    IN  IF p = 0 THEN s
        ELSE ReplaceAll(Replace(s, p, Len(key), val), key, val,
                        NextPos(p, val))

\* lines 51-57: the rules lo..hi applied one after the other in iteration
\* order. The range is halved and the text is inspected on entry so that the
\* evaluation stays shallow; the result is that of the loop (an empty text
\* holds no occurrence of a key, and every key is non-empty).
RECURSIVE ApplyFixes(_, _, _, _)
ApplyFixes(s, fixes, lo, hi) ==
    IF Len(s) = 0 \/ lo > hi THEN s
    ELSE IF lo = hi THEN ReplaceAll(s, fixes[lo][1], fixes[lo][2], 1)
    ELSE LET mid == (lo + hi) \div 2
         IN  ApplyFixes(ApplyFixes(s, fixes, lo, mid), fixes, mid + 1, hi)

\* line 61: std::regex_replace(result, std::regex("\\s+"), " ")
RECURSIVE CollapseSpaces(_, _)
CollapseSpaces(s, i) ==
    IF i > Len(s) THEN <<>>
    ELSE IF IsSpace(s[i])
         THEN IF i > 1 /\ IsSpace(s[i - 1])
              THEN CollapseSpaces(s, i + 1)
              ELSE <<" ">> \o CollapseSpaces(s, i + 1)
         ELSE <<s[i]>> \o CollapseSpaces(s, i + 1)

\* lines 64-69: erase the leading and the trailing whitespace
Trim(s) ==
    LET solid == {i \in 1..Len(s) : ~IsSpace(s[i])}
    IN  IF solid = {} THEN <<>>
        ELSE SubSeq(s, CHOOSE i \in solid : \A j \in solid : i <= j,
                       CHOOSE i \in solid : \A j \in solid : i >= j)

\* lines 47-72
apply_basic_fixes(text, fixes) == Trim(CollapseSpaces(ApplyFixes(text, fixes, 1, Len(fixes)), 1))

\* lines 12-26 with aggressive_mode_ = false (text_corrector.hpp line 36; the
\* processor builds its TextCorrector at pdf_processor.cpp line 378 and never
\* sets the mode), so that the regex pass of line 22 does not run
correct_text(text, fixes) ==
    IF text = <<>> THEN text ELSE apply_basic_fixes(text, fixes)

(***************************************************************************)
(* HeadingClassifier.  A HeadingLevel is one of "H1", "H2", "H3", "H4" and *)
(* "UNKNOWN" (heading_classifier.hpp lines 10-16).                         *)
(***************************************************************************)
UpperCase ==
    <<"A", "B", "C", "D", "E", "F", "G", "H", "I", "J", "K", "L", "M",
      "N", "O", "P", "Q", "R", "S", "T", "U", "V", "W", "X", "Y", "Z">>

LowerCase ==
    <<"a", "b", "c", "d", "e", "f", "g", "h", "i", "j", "k", "l", "m",
      "n", "o", "p", "q", "r", "s", "t", "u", "v", "w", "x", "y", "z">>

\* std::isupper, std::islower, std::isalpha and the regex classes \d and \w
\* in the "C" locale
Uppers == {UpperCase[k] : k \in 1..26}
Lowers == {LowerCase[k] : k \in 1..26}
Alphas == Uppers \cup Lowers
Digits == {"0", "1", "2", "3", "4", "5", "6", "7", "8", "9"}
WordChars == Alphas \cup Digits \cup {"_"}
Spaces == {" ", "\t", "\n", "\r", "\f"}

\* ::tolower, lines 379, 398 and 441
tolower(ch) ==
    IF ch \in Uppers THEN LowerCase[CHOOSE k \in 1..26 : UpperCase[k] = ch]
    ELSE ch

\* lines 439-443
to_lower(str) == [k \in 1..Len(str) |-> tolower(str[k])]

\* std::count(text.begin(), text.end(), ch)
Count(str, ch) == Cardinality({k \in 1..Len(str) : str[k] = ch})

\* lines 160, 218 and 296: word_count
WordCount(str) == Count(str, " ") + 1

\* lower.find(key) == 0
StartsWith(str, key) == MatchAt(str, key, 1)

\* lower.find(key) != std::string::npos
Contains(str, key) == Find(str, key, 1) # 0

\* text.back()
Back(str) == str[Len(str)]

\* text.front()
Front(str) == str[1]

(***************************************************************************)
(* std::regex (ECMAScript) as far as the classifier's patterns use it.  A  *)
(* pattern is a tree: ReChr(S) is one character of the set S, ReLitI(str)  *)
(* the characters of str whatever their case, ReBol the assertion ^,       *)
(* ReWordB the assertion \b, ReSeq a concatenation, ReAlt an alternation   *)
(* and ReRep(of, min, max) a quantifier (max = -1: unbounded).             *)
(***************************************************************************)
ReChr(S) == [t |-> "chr", of |-> S]
ReLitI(str) == [t |-> "lit", of |-> str]
ReBol == [t |-> "bol"]
ReWordB == [t |-> "wordb"]
ReSeq(parts) == [t |-> "seq", of |-> parts]
ReAlt(parts) == [t |-> "alt", of |-> parts]
ReRep(of, min, max) == [t |-> "rep", of |-> of, min |-> min, max |-> max]

IsWordAt(s, i) == i >= 1 /\ i <= Len(s) /\ s[i] \in WordChars

\* The positions at which a match of re that starts at position i can end
RECURSIVE Ends(_, _, _)
RECURSIVE SeqEnds(_, _, _, _)
RECURSIVE RepEnds(_, _, _, _, _, _)
Ends(re, s, i) ==
    CASE re.t = "chr" -> IF i <= Len(s) /\ s[i] \in re.of THEN {i + 1} ELSE {}
      [] re.t = "lit" -> IF MatchAt(to_lower(s), re.of, i)
                         THEN {i + Len(re.of)} ELSE {}
      [] re.t = "bol" -> IF i = 1 THEN {i} ELSE {}
      [] re.t = "wordb" -> IF IsWordAt(s, i - 1) # IsWordAt(s, i) THEN {i} ELSE {}
      [] re.t = "seq" -> SeqEnds(re.of, 1, s, {i})
      [] re.t = "alt" -> UNION {Ends(re.of[k], s, i) : k \in 1..Len(re.of)}
      [] re.t = "rep" -> RepEnds(re.of, s, {i}, 0, re.min, re.max)

SeqEnds(parts, k, s, from) ==
    IF k > Len(parts) \/ from = {} THEN from
    ELSE SeqEnds(parts, k + 1, s, UNION {Ends(parts[k], s, i) : i \in from})

RepEnds(of, s, from, n, min, max) ==
    LET here == IF n >= min THEN from ELSE {}
    IN  IF from = {} \/ n = max THEN here
        ELSE here \cup RepEnds(of, s, UNION {Ends(of, s, i) : i \in from},
                               n + 1, min, max)

\* std::regex_search(s, re)
regex_search(s, re) == \E i \in 1..(Len(s) + 1) : Ends(re, s, i) # {}

Digit == ReChr(Digits)
Space == ReChr(Spaces)
Dot == ReChr({"."})
Plus(re) == ReRep(re, 1, -1)
Star(re) == ReRep(re, 0, -1)
Opt(re) == ReRep(re, 0, 1)

\* line 389: ^(chapter|section|part|phase)\s+[IVX0-9], icase
MajorSectionRe ==
    ReSeq(<<ReBol,
          ReAlt(<<ReLitI(<<"c", "h", "a", "p", "t", "e", "r">>), ReLitI(<<"s", "e", "c", "t", "i", "o", "n">>), ReLitI(<<"p", "a", "r", "t">>), ReLitI(<<"p", "h", "a", "s", "e">>)>>),
          Plus(Space),
          ReChr({"I", "V", "X", "i", "v", "x"} \cup Digits)>>)

\* line 407: ^\d+\.\d+
SubsectionRe == ReSeq(<<ReBol, Plus(Digit), Dot, Plus(Digit)>>)

\* line 415: ^\d+\.?\s
NumberedListRe == ReSeq(<<ReBol, Plus(Digit), Opt(Dot), Space>>)

\* line 416: ^[a-z]\)\s, icase
LetteredListRe == ReSeq(<<ReBol, ReChr(Alphas), ReChr({")"}), Space>>)

\* line 428: \b\d{1,2}[/-]\d{1,2}[/-]\d{2,4}\b
DateRe ==
    ReSeq(<<ReWordB, ReRep(Digit, 1, 2), ReChr({"/", "-"}), ReRep(Digit, 1, 2),
          ReChr({"/", "-"}), ReRep(Digit, 2, 4), ReWordB>>)

\* line 429: \b(january|...|december)\s+\d{1,2},?\s+\d{4}, icase
MonthDateRe ==
    ReSeq(<<ReWordB,
          ReAlt(<<ReLitI(<<"j", "a", "n", "u", "a", "r", "y">>), ReLitI(<<"f", "e", "b", "r", "u", "a", "r", "y">>), ReLitI(<<"m", "a", "r", "c", "h">>), ReLitI(<<"a", "p", "r", "i", "l">>),
                ReLitI(<<"m", "a", "y">>), ReLitI(<<"j", "u", "n", "e">>), ReLitI(<<"j", "u", "l", "y">>), ReLitI(<<"a", "u", "g", "u", "s", "t">>),
                ReLitI(<<"s", "e", "p", "t", "e", "m", "b", "e", "r">>), ReLitI(<<"o", "c", "t", "o", "b", "e", "r">>), ReLitI(<<"n", "o", "v", "e", "m", "b", "e", "r">>),
                ReLitI(<<"d", "e", "c", "e", "m", "b", "e", "r">>)>>),
          Plus(Space), ReRep(Digit, 1, 2), Opt(ReChr({","})), Plus(Space),
          ReRep(Digit, 4, 4)>>)

\* line 430: \btimeline:\s*, icase
TimelineRe == ReSeq(<<ReWordB, ReLitI(<<"t", "i", "m", "e", "l", "i", "n", "e", ":">>), Star(Space)>>)

\* line 247: ^\s*(?:\d+\.|\d+\.\d+\.?|[IVX]+\.?|[A-Z]\.)\s
NumberedHeadingRe ==
    ReSeq(<<ReBol, Star(Space),
          ReAlt(<<ReSeq(<<Plus(Digit), Dot>>),
                ReSeq(<<Plus(Digit), Dot, Plus(Digit), Opt(Dot)>>),
                ReSeq(<<Plus(ReChr({"I", "V", "X"})), Opt(Dot)>>),
                ReSeq(<<ReChr(Uppers), Dot>>)>>),
          Space>>)

\* line 304: ^\s*(?:\d+\.|\d+\s+[A-Z]|[IVX]+\.)\s
MajorNumberRe ==
    ReSeq(<<ReBol, Star(Space),
          ReAlt(<<ReSeq(<<Plus(Digit), Dot>>),
                ReSeq(<<Plus(Digit), Plus(Space), ReChr(Uppers)>>),
                ReSeq(<<Plus(ReChr({"I", "V", "X"})), Dot>>)>>),
          Space>>)

\* lines 375-391: h1_indicators_
H1Indicators(t) ==
    LET lower == to_lower(t)
    IN  \/ StartsWith(lower, <<"a", "b", "s", "t", "r", "a", "c", "t">>)
        \/ StartsWith(lower, <<"i", "n", "t", "r", "o", "d", "u", "c", "t", "i", "o", "n">>)
        \/ StartsWith(lower, <<"e", "x", "e", "c", "u", "t", "i", "v", "e", " ", "s", "u", "m", "m", "a", "r", "y">>)
        \/ StartsWith(lower, <<"c", "o", "n", "c", "l", "u", "s", "i", "o", "n">>)
        \/ StartsWith(lower, <<"a", "p", "p", "e", "n", "d", "i", "x">>)
        \/ StartsWith(lower, <<"s", "u", "m", "m", "a", "r", "y">>)
        \/ Contains(lower, <<"p", "h", "a", "s", "e", " ", "i">>)
        \/ Contains(lower, <<"p", "h", "a", "s", "e", " ", "i", "i">>)
        \/ Contains(lower, <<"p", "h", "a", "s", "e", " ", "i", "i", "i">>)
        \/ regex_search(t, MajorSectionRe)

\* lines 394-409: h2_indicators_
H2Indicators(t) ==
    LET lower == to_lower(t)
    IN  \/ lower = <<"b", "a", "c", "k", "g", "r", "o", "u", "n", "d">>
        \/ lower = <<"m", "e", "t", "h", "o", "d", "o", "l", "o", "g", "y">>
        \/ lower = <<"r", "e", "s", "u", "l", "t", "s">>
        \/ lower = <<"d", "i", "s", "c", "u", "s", "s", "i", "o", "n">>
        \/ lower = <<"r", "e", "f", "e", "r", "e", "n", "c", "e", "s">>
        \/ lower = <<"b", "i", "b", "l", "i", "o", "g", "r", "a", "p", "h", "y">>
        \/ lower = <<"a", "c", "k", "n", "o", "w", "l", "e", "d", "g", "m", "e", "n", "t", "s">>
        \/ StartsWith(lower, <<"t", "i", "m", "e", "l", "i", "n", "e", ":">>)
        \/ StartsWith(lower, <<"e", "v", "a", "l", "u", "a", "t", "i", "o", "n">>)
        \/ StartsWith(lower, <<"f", "u", "n", "d", "i", "n", "g">>)
        \/ regex_search(t, SubsectionRe)

\* lines 412-422: h3_indicators_
H3Indicators(t) ==
    \/ regex_search(t, NumberedListRe)
    \/ regex_search(t, LetteredListRe)
    \/ Back(t) = ":" /\ Len(t) > 5 /\ Len(t) < 60

\* lines 425-436: h4_indicators_
H4Indicators(t) ==
    \/ regex_search(t, DateRe)
    \/ regex_search(t, MonthDateRe)
    \/ regex_search(t, TimelineRe)
    \/ (Front(t) = "-" \/ Front(t) = "*") /\ Len(t) < 50

\* The mutant of matches_h1_patterns: the rule for page 1 reads the stored
\* document context in place of the page number of the call.
matches_h1_patterns_ReadsContext(t, page) ==
    H1Indicators(t) \/ (total_pages_ = 1 /\ Len(t) > 20)

\* lines 115-129
matches_h1_patterns(t, page) ==
    H1Indicators(t) \/ (page = 1 /\ Len(t) > 20)

\* lines 131-138
matches_h2_patterns(t) == H2Indicators(t)

\* lines 140-147
matches_h3_patterns(t) == H3Indicators(t)

\* lines 149-156
matches_h4_patterns(t) == H4Indicators(t)

\* lines 158-191
is_likely_body_text(t) ==
    LET word_count == WordCount(t)
        sentence_count == Count(t, ".") + Count(t, "!") + Count(t, "?")
        lower == to_lower(t)
    IN  \/ Len(t) > 200
        \/ word_count > 25
        \/ Back(t) = "." /\ Len(t) > 50
        \/ sentence_count > 1
        \/ /\ \/ StartsWith(lower, <<"t", "h", "e", " ">>)
              \/ StartsWith(lower, <<"t", "h", "i", "s", " ">>)
              \/ StartsWith(lower, <<"i", "n", " ">>)
              \/ StartsWith(lower, <<"f", "o", "r", " ">>)
              \/ StartsWith(lower, <<"w", "i", "t", "h", " ">>)
              \/ StartsWith(lower, <<"a", "s", " ">>)
           /\ word_count > 8

\* The mutant of classify_by_patterns: H2 is tried before H3 and H4.
classify_by_patterns_H2First(t, page) ==
    IF matches_h1_patterns(t, page) THEN "H1"
    ELSE IF matches_h2_patterns(t) THEN "H2"
    ELSE IF matches_h3_patterns(t) THEN "H3"
    ELSE IF matches_h4_patterns(t) THEN "H4"
    ELSE "UNKNOWN"

\* lines 193-215
classify_by_patterns(t, page) ==
    IF matches_h1_patterns(t, page) THEN "H1"
    ELSE IF matches_h4_patterns(t) THEN "H4"
    ELSE IF matches_h3_patterns(t) THEN "H3"
    ELSE IF matches_h2_patterns(t) THEN "H2"
    ELSE "UNKNOWN"

\* The mutant of validate_heading_candidate: every proposed level passes.
validate_heading_candidate_Any(t, proposed_level) == TRUE

\* lines 217-241
validate_heading_candidate(t, proposed_level) ==
    LET word_count == WordCount(t)
    IN  CASE proposed_level = "H1" ->
                Len(t) >= 10 /\ Len(t) <= 150 /\ word_count <= 20
          [] proposed_level = "H2" ->
                Len(t) >= 5 /\ Len(t) <= 120 /\ word_count <= 15
          [] proposed_level = "H3" ->
                Len(t) >= 3 /\ Len(t) <= 100 /\ word_count <= 12
          [] proposed_level = "H4" ->
                Len(t) >= 3 /\ Len(t) <= 80 /\ word_count <= 10
          [] OTHER -> FALSE

\* operator>> of std::istringstream, line 278: the words of t from position
\* i on, split at whitespace
RECURSIVE WordsFrom(_, _)
WordsFrom(t, i) ==
    IF i > Len(t) THEN <<>>
    ELSE IF t[i] \in Spaces THEN WordsFrom(t, i + 1)
    ELSE LET stops == {j \in i..Len(t) : t[j] \in Spaces}
             stop == IF stops = {} THEN Len(t) + 1
                     ELSE CHOOSE j \in stops : \A k \in stops : j <= k
         IN  <<SubSeq(t, i, stop - 1)>> \o WordsFrom(t, stop)

\* lines 278-285: the loop over the words from the k-th on; the counters
\* are <<capitalized, total>>
RECURSIVE CountCapitalized(_, _, _)
CountCapitalized(words, k, counters) ==
    IF k > Len(words) \/ counters[2] >= 10 THEN counters
    ELSE IF words[k][1] \in Alphas
         THEN CountCapitalized(words, k + 1,
                  <<counters[1] + (IF words[k][1] \in Uppers THEN 1 ELSE 0),
                    counters[2] + 1>>)
         ELSE CountCapitalized(words, k + 1, counters)

\* lines 243-293.  (float)capitalized / total >= 0.7 for total in 2..8 is
\* 10 * capitalized >= 7 * total: no quotient of that range is within a
\* rounding error of 0.7.
has_heading_structure(t) ==
    LET letters == {k \in 1..Len(t) : t[k] \in Alphas}
        counters == CountCapitalized(WordsFrom(t, 1), 1, <<0, 0>>)
        capitalized == counters[1]
        total == counters[2]
    IN  \/ regex_search(t, NumberedHeadingRe)
        \/ Back(t) = ":" /\ Len(t) > 5 /\ Len(t) < 80
        \/ /\ Len(t) > 3
           /\ Len(t) < 50
           /\ \A k \in letters : t[k] \notin Lowers
           /\ Cardinality(letters) > 2
        \/ total >= 2 /\ total <= 8 /\ 10 * capitalized >= 7 * total

\* lines 295-323
classify_by_structure(t, page) ==
    LET word_count == WordCount(t)
    IN  IF page = 1 /\ Len(t) > 20 /\ word_count >= 3 THEN "H1"
        ELSE IF regex_search(t, MajorNumberRe)
             THEN IF word_count <= 6 THEN "H1" ELSE "H2"
        ELSE IF Back(t) = ":"
             THEN IF word_count <= 4 THEN "H3" ELSE "H4"
        ELSE IF word_count <= 3 THEN "H4"
        ELSE IF word_count <= 6 THEN "H3"
        ELSE IF word_count <= 10 THEN "H2"
        ELSE "UNKNOWN"

\* The mutant of convert_yolo_label_to_heading_level: "list" maps to H2.
convert_yolo_label_to_heading_level_ListH2(yolo_label) ==
    IF yolo_label = "title" THEN "H1"
    ELSE IF yolo_label = "text" THEN "H2"
    ELSE IF yolo_label = "list" THEN "H2"
    ELSE "UNKNOWN"

\* lines 348-371
convert_yolo_label_to_heading_level(yolo_label) ==
    IF yolo_label = "title" THEN "H1"
    ELSE IF yolo_label = "text" THEN "H2"
    ELSE IF yolo_label = "list" THEN "H3"
    ELSE "UNKNOWN"

\* lines 344-346
classify_by_layout_label(label) == convert_yolo_label_to_heading_level(label)

\* The mutant of IsRejected: only a text shorter than 3 is rejected.
IsRejected_ShortOnly(t) == Len(t) < 3

\* lines 32-39: the rejection up front
IsRejected(t) == Len(t) < 3 \/ is_likely_body_text(t)

\* The mutant of StructuralStageApplies: the label is not looked at.
StructuralStageApplies_AnyLabel(t, label) == has_heading_structure(t)

\* line 61: layout_label == "text" && has_heading_structure(text)
StructuralStageApplies(t, label) == label = "text" /\ has_heading_structure(t)

\* lines 28-69
determine_heading_level(t, label, page) ==
    IF IsRejected(t) THEN "UNKNOWN"
    ELSE LET layout_level == classify_by_layout_label(label)
             pattern_level == classify_by_patterns(t, page)
             structural_level == classify_by_structure(t, page)
         IN  IF /\ layout_level # "UNKNOWN"
                /\ validate_heading_candidate(t, layout_level)
             THEN layout_level
             ELSE IF /\ pattern_level # "UNKNOWN"
                     /\ validate_heading_candidate(t, pattern_level)
             THEN pattern_level
             ELSE IF /\ StructuralStageApplies(t, label)
                     /\ structural_level # "UNKNOWN"
             THEN structural_level
             ELSE "UNKNOWN"

(***************************************************************************)
(* Inputs of the NMS and decoder specifications.                           *)
(***************************************************************************)
SeqsUpTo(S, n) == UNION {[1..k -> S] : k \in 0..n}

\* Boxes <<x1, y1, x2, y2, confidence>>: three rectangles that overlap in a
\* chain (IoU 0.6 between neighbours, 0.33 between the outer two), one apart
\* from them and one of zero area, at several confidences.
NmsBoxSpecs ==
    {<<0, 0, 4, 4, 900>>, <<0, 0, 4, 4, 500>>,
     <<1, 0, 5, 4, 700>>, <<1, 0, 5, 4, 900>>,
     <<2, 0, 6, 4, 500>>, <<2, 0, 6, 4, 700>>,
     <<10, 10, 12, 12, 700>>, <<10, 10, 12, 12, 500>>,
     <<3, 3, 3, 3, 900>>, <<3, 3, 3, 3, 500>>}

NmsThresholds == {0, nms_threshold_}

NmsBoxes == {BBox(g[1], g[2], g[3], g[4], g[5], 9, "text") : g \in NmsBoxSpecs}

\* Candidate geometry <<x_center, y_center, width, height>>; the last two
\* have a zero and a negative width.
DecGeoms ==
    {<<10, 10, 4, 4>>, <<11, 10, 4, 4>>, <<30, 30, 5, 3>>, <<10, 10, 0, 4>>,
     <<20, 20, -2, 2>>}

\* The class scores of one candidate: class c1 has v1, class c2 has v2, the
\* others lo.
ScoreVec(c1, v1, c2, v2, lo) ==
    [c \in 0..(num_classes - 1) |->
        IF c = c1 THEN v1 ELSE IF c = c2 THEN v2 ELSE lo]

ScoreVecs ==
    {ScoreVec(0, 0, 1, 0, 0),           \* all zero
     ScoreVec(10, 900, 1, 10, 10),      \* title 0.9
     ScoreVec(9, 499, 1, 0, 0),         \* text just below the threshold
     ScoreVec(7, 500, 1, 0, 0),         \* section header at the threshold
     ScoreVec(8, 2000, 10, 900, 0),     \* raw 2.0 against 0.9
     ScoreVec(0, -500, 1, -500, -500),  \* all negative
     ScoreVec(3, 1000, 0, 3000, 0),     \* exactly 1.0 against raw 3.0
     ScoreVec(8, 1500, 1, 0, 0)}        \* raw 1.5 alone

\* Every geometry with the title score, and the first geometry with every
\* score vector.
Candidates ==
    {<<g, ScoreVec(10, 900, 1, 10, 10)>> : g \in DecGeoms}
        \cup {<<(<<10, 10, 4, 4>>), v>> : v \in ScoreVecs}

\* lines 348-350: the flat tensor [4 + num_classes][D] of the candidates cs
TensorOf(cs) ==
    LET D == Len(cs)
    IN  [n \in 1..((4 + num_classes) * D) |->
            LET attr == (n - 1) \div D
                i == ((n - 1) % D) + 1
            IN  IF attr < 4 THEN cs[i][1][attr + 1] ELSE cs[i][2][attr - 4]]

\* lines 184-185: image.cols / 1024.0f and image.rows / 1024.0f, for images
\* whose sides are multiples of 1024
Scales == {<<1, 1>>, <<2, 3>>}

(***************************************************************************)
(* Specification SpecNms: nms applied to a list of boxes.                  *)
(***************************************************************************)
IdleNms == boxes = <<>> /\ threshold = nms_threshold_ /\ indices = <<>> /\ keep = <<>>

IdleDec ==
    /\ output_data = <<>>
    /\ num_attributes = 4 + num_classes
    /\ num_detections = 0
    /\ scale_x = 1
    /\ scale_y = 1
    /\ detections = <<>>

IdleTable ==
    /\ text_blocks = <<>>
    /\ table_regions = <<>>
    /\ region = Rect(0, 0, 0, 0)
    /\ overlapping = FALSE

IdleText ==
    /\ input = <<>>
    /\ basic_fixes_ = <<>>
    /\ result = <<>>
    /\ result2 = <<>>

IdleHead ==
    /\ heading_text = <<>>
    /\ layout_label = ""
    /\ page_number = 1
    /\ level = "UNKNOWN"

NotRun == [ran |-> FALSE, throws |-> FALSE, detections |-> <<>>]

IdleLayout ==
    /\ USE_ONNX_RUNTIME = FALSE
    /\ initialized_ = FALSE
    /\ ort_session_ = FALSE
    /\ image = [cols |-> 0, rows |-> 0]
    /\ inference = NotRun
    /\ layout = <<>>

NoPage ==
    [image |-> [cols |-> 0, rows |-> 0], text_blocks |-> <<>>,
     detections |-> <<>>, throw_step |-> 0]

IdleDoc ==
    /\ files_to_process = 0
    /\ file_index = 0
    /\ successful_files = 0
    /\ reported = <<>>
    /\ exit_code = -1
    /\ yolo_ready = TRUE
    /\ page_count = 0
    /\ next_page = 0
    /\ all_headings = <<>>
    /\ page_input = NoPage
    /\ page_headings = <<>>
    /\ classified = <<>>
    /\ ocr_regions = <<>>

IdleRun ==
    /\ current_pdf_path_ = 0
    /\ run_pc = <<>>
    /\ run_tables = <<>>
    /\ temp_crop = <<>>
    /\ tmp_files = <<>>
    /\ run_stdout = <<>>
    /\ run_headings = <<>>

\* No call of load_custom_corrections yet
NoCustomFile == [called |-> FALSE, opened |-> FALSE, lines |-> <<>>]

IdleCustom ==
    /\ custom_file = NoCustomFile
    /\ fix_k = 0
    /\ fix_pos = 0

IdleContext ==
    /\ heading_bbox = <<>>
    /\ document_title_ = <<>>
    /\ total_pages_ = 0
    /\ classifier_initialized_ = FALSE
    /\ other_calls = 0
    /\ level_again = "UNKNOWN"

IdleReads == tensor_reads = {}

IdleOther == IdleCustom /\ IdleContext /\ IdleReads

IdlePipeline == IdleHead /\ IdleLayout /\ IdleDoc /\ IdleRun /\ IdleOther

IdleButHead ==
    /\ IdleNms /\ IdleDec /\ IdleTable /\ IdleText
    /\ IdleLayout /\ IdleDoc /\ IdleRun /\ IdleOther

IdleButLayout ==
    /\ IdleNms /\ IdleDec /\ IdleTable /\ IdleText
    /\ IdleHead /\ IdleDoc /\ IdleRun /\ IdleOther

varsButHead ==
    <<nmsVars, decVars, tableVars, textVars, layoutVars, docVars, runVars,
      otherVars>>

varsButLayout ==
    <<nmsVars, decVars, tableVars, textVars, headVars, docVars, runVars,
      otherVars>>

varsButDoc ==
    <<nmsVars, decVars, tableVars, textVars, headVars, layoutVars, runVars,
      otherVars>>

varsButRun ==
    <<nmsVars, decVars, tableVars, textVars, headVars, layoutVars, docVars,
      otherVars>>

InitNms ==
    /\ pc = "nms_start"
    /\ boxes \in SeqsUpTo(NmsBoxes, MaxBoxes)
    /\ threshold \in NmsThresholds
    /\ indices = <<>>
    /\ keep = <<>>
    /\ IdleDec
    /\ IdleTable
    /\ IdleText
    /\ IdlePipeline

\* lines 296-341
NmsCall ==
    /\ pc = "nms_start"
    /\ \E idx \in SortedIndices(boxes) :
          /\ indices' = idx
          /\ keep' = nms(boxes, idx, threshold)
    /\ pc' = "nms_done"
    /\ UNCHANGED <<boxes, threshold>>
    /\ UNCHANGED <<decVars, tableVars, textVars, pipelineVars>>

NextNms == NmsCall

SpecNms == InitNms /\ [][NextNms]_vars

(***************************************************************************)
(* Specification SpecDec: the decoder applied to a raw tensor.             *)
(***************************************************************************)
InitDec ==
    /\ pc = "dec_start"
    /\ \E cs \in SeqsUpTo(Candidates, MaxDet) :
          /\ output_data = TensorOf(cs)
          /\ num_detections = Len(cs)
    /\ num_attributes = 4 + num_classes
    /\ \E sc \in Scales : scale_x = sc[1] /\ scale_y = sc[2]
    /\ detections = <<>>
    /\ IdleNms
    /\ IdleTable
    /\ IdleText
    /\ IdlePipeline

\* lines 343-422
Postprocess ==
    /\ pc = "dec_start"
    /\ LET bs == DecodeFrom(output_data, num_detections, scale_x, scale_y, 1, <<>>)
       IN  /\ boxes' = bs
           /\ \E idx \in SortedIndices(bs) :
                 /\ indices' = idx
                 /\ keep' = nms(bs, idx, nms_threshold_)
                 /\ detections' = FinalBoxes(bs, nms(bs, idx, nms_threshold_))
    /\ threshold' = nms_threshold_
    /\ pc' = "dec_done"
    /\ UNCHANGED <<output_data, num_attributes, num_detections, scale_x, scale_y>>
    /\ UNCHANGED <<tableVars, textVars, pipelineVars>>

NextDec == Postprocess

SpecDec == InitDec /\ [][NextDec]_vars


(***************************************************************************)
(* Specification SpecTable: detect_tables_on_page on the text blocks of a  *)
(* page.                                                                   *)
(***************************************************************************)
\* Left edges: 0 and 6 are aligned, 6 and 10 are aligned, 0 and 10 are
\* exactly the tolerance apart.
X0Values == {0, 6, 10}

\* The k-th block of a page, left edge x0: one line of text per block
BlockAt(x0, k) == fz_rect(x0, 20 * k, x0 + 50, 20 * k + 12)

BlocksOf(xs) == [k \in 1..Len(xs) |-> BlockAt(xs[k], k)]

\* 8 blocks forming 2 aligned columns of 4 blocks each
TwoColumnsOfFour == BlocksOf(<<50, 300, 50, 300, 50, 300, 50, 300>>)

\* 5 blocks, no two of them aligned
FiveUnaligned == BlocksOf(<<0, 40, 80, 120, 160>>)

InitTable ==
    /\ pc = "table_start"
    /\ text_blocks \in {BlocksOf(xs) : xs \in SeqsUpTo(X0Values, MaxBlocks)}
                          \cup {TwoColumnsOfFour, FiveUnaligned}
    /\ table_regions = <<>>
    /\ region = Rect(0, 0, 0, 0)
    /\ overlapping = FALSE
    /\ IdleNms
    /\ IdleDec
    /\ IdleText
    /\ IdlePipeline

\* pdf_processor.cpp lines 477-606
DetectTables ==
    /\ pc = "table_start"
    /\ table_regions' = detect_tables_on_page(text_blocks)
    /\ pc' = "table_done"
    /\ UNCHANGED <<text_blocks, region, overlapping>>
    /\ UNCHANGED <<nmsVars, decVars, textVars, pipelineVars>>

NextTable == DetectTables

SpecTable == InitTable /\ [][NextTable]_vars

(***************************************************************************)
(* Specification SpecOverlap: is_region_overlapping_table on a candidate   *)
(* region and a list of table rectangles.                                  *)
(***************************************************************************)
\* Candidate regions: areas 100 and 1000, one of zero width, one of
\* negative extent, and one of the size of a page rendered at 300 dpi.
OverlapRegions ==
    {Rect(0, 0, 100, 1), Rect(0, 0, 100, 10), Rect(5, 0, 0, 4), Rect(40, 1, -3, -1),
     Rect(0, 0, 2001, 2013)}

\* Table rectangles covering 29, 30, 31 and 100 columns of the regions, one
\* covering 3 of the 10 rows, one apart from every region, and one covering
\* 1208404 of the 4028013 pixels of the large region.
OverlapTables ==
    {Rect(0, 0, 29, 20), Rect(0, 0, 30, 20), Rect(0, 0, 31, 20),
     Rect(0, 0, 100, 20), Rect(0, 7, 200, 20), Rect(500, 500, 10, 10),
     Rect(0, 0, 953, 1268)}

InitOverlap ==
    /\ pc = "overlap_start"
    /\ region \in OverlapRegions
    /\ table_regions \in SeqsUpTo(OverlapTables, MaxTables)
    /\ text_blocks = <<>>
    /\ overlapping = FALSE
    /\ IdleNms
    /\ IdleDec
    /\ IdleText
    /\ IdlePipeline

\* pdf_processor.cpp lines 608-623
CheckOverlap ==
    /\ pc = "overlap_start"
    /\ overlapping' = is_region_overlapping_table(region, table_regions)
    /\ pc' = "overlap_done"
    /\ UNCHANGED <<text_blocks, table_regions, region>>
    /\ UNCHANGED <<nmsVars, decVars, textVars, pipelineVars>>

NextOverlap == CheckOverlap

SpecOverlap == InitOverlap /\ [][NextOverlap]_vars

(***************************************************************************)
(* Specification SpecText: correct_text applied to a text, and again to    *)
(* its own result.                                                         *)
(***************************************************************************)
TextAlphabet == {"n", "o", "S", " "}

RnatchThisVvork ==
    <<"r", "n", "a", "t", "c", "h", " ", "t", "h", "i", "s", " ",
      "v", "v", "o", "r", "k">>

MatchThisWork ==
    <<"m", "a", "t", "c", "h", " ", "t", "h", "i", "s", " ", "w", "o", "r", "k">>

TextInputs == SeqsUpTo(TextAlphabet, MaxTextLen) \cup {RnatchThisVvork}

InitText ==
    /\ pc = "text_start"
    /\ input \in TextInputs
    /\ basic_fixes_ \in FixOrders
    /\ result = <<>>
    /\ result2 = <<>>
    /\ IdleNms
    /\ IdleDec
    /\ IdleTable
    /\ IdlePipeline

\* text_corrector.cpp lines 12-26
CorrectText ==
    /\ pc = "text_start"
    /\ result' = correct_text(input, basic_fixes_)
    /\ pc' = "text_once"
    /\ UNCHANGED <<input, basic_fixes_, result2>>
    /\ UNCHANGED <<nmsVars, decVars, tableVars, pipelineVars>>

\* text_corrector.cpp lines 12-26, on the corrected text
CorrectAgain ==
    /\ pc = "text_once"
    /\ result2' = correct_text(result, basic_fixes_)
    /\ pc' = "text_twice"
    /\ UNCHANGED <<input, basic_fixes_, result>>
    /\ UNCHANGED <<nmsVars, decVars, tableVars, pipelineVars>>

NextText == CorrectText \/ CorrectAgain

SpecText == InitText /\ [][NextText]_vars

(***************************************************************************)
(* Specification SpecHeading: determine_heading_level applied to a text,   *)
(* the layout label of its region and the number of its page.              *)
(***************************************************************************)
\* "": the empty text
EmptyText ==
    <<>>

\* "Hi": shorter than 3
TwoChars ==
    <<"H", "i">>

\* a paragraph of 220 characters and three sentences
Sentence1 ==
    <<"T", "h", "e", " ", "c", "o", "m", "m", "i", "t", "t", "e", "e", " ", "r", "e", "v", "i", "e", "w", "e", "d", " ", "e", "v", "e", "r", "y", " ", "p", "r", "o", "p", "o", "s", "a", "l", " ", "t", "h", "a", "t", " ", "w", "a", "s", " ", "s", "u", "b", "m", "i", "t", "t", "e", "d", " ", "t", "h", "i", "s", " ", "y", "e", "a", "r", ".", " ">>

Sentence2 ==
    <<"M", "o", "s", "t", " ", "o", "f", " ", "t", "h", "e", "m", " ", "a", "s", "k", "e", "d", " ", "f", "o", "r", " ", "m", "o", "r", "e", " ", "f", "u", "n", "d", "i", "n", "g", " ", "t", "h", "a", "n", " ", "t", "h", "e", " ", "p", "r", "o", "g", "r", "a", "m", "m", "e", " ", "c", "a", "n", " ", "p", "r", "o", "v", "i", "d", "e", "!", " ">>

Sentence3 ==
    <<"W", "i", "l", "l", " ", "t", "h", "e", " ", "r", "e", "m", "a", "i", "n", "i", "n", "g", " ", "b", "u", "d", "g", "e", "t", " ", "b", "e", " ", "e", "n", "o", "u", "g", "h", " ", "t", "o", " ", "s", "u", "p", "p", "o", "r", "t", " ", "a", "l", "l", " ", "o", "f", " ", "t", "h", "e", " ", "s", "h", "o", "r", "t", "l", "i", "s", "t", "e", "d", " ", "s", "t", "u", "d", "e", "n", "t", " ", "t", "e", "a", "m", "s", "?">>

Paragraph220 == Sentence1 \o Sentence2 \o Sentence3

\* "Introduction"
Introduction ==
    <<"I", "n", "t", "r", "o", "d", "u", "c", "t", "i", "o", "n">>

\* "2.1 Background"
Background21 ==
    <<"2", ".", "1", " ", "B", "a", "c", "k", "g", "r", "o", "u", "n", "d">>

\* "Results"
Results ==
    <<"R", "e", "s", "u", "l", "t", "s">>

\* "RESULTS"
ResultsUpper ==
    <<"R", "E", "S", "U", "L", "T", "S">>

\* "results"
ResultsLower ==
    <<"r", "e", "s", "u", "l", "t", "s">>

\* "Executive Summary"
ExecutiveSummary ==
    <<"E", "x", "e", "c", "u", "t", "i", "v", "e", " ", "S", "u", "m", "m", "a", "r", "y">>

\* "Execuhve Summary"
ExecuhveSummary ==
    <<"E", "x", "e", "c", "u", "h", "v", "e", " ", "S", "u", "m", "m", "a", "r", "y">>

\* "Summary": an H1 indicator below the H1 length
Summary ==
    <<"S", "u", "m", "m", "a", "r", "y">>

\* "I. A": a numbered heading of 4 characters
RomanOneA ==
    <<"I", ".", " ", "A">>

\* "ABCD"
AllCaps ==
    <<"A", "B", "C", "D">>

\* "The quick brown fox jumps over the lazy dog again": starts with 'the ' and has 10 words
TheQuick ==
    <<"T", "h", "e", " ", "q", "u", "i", "c", "k", " ", "b", "r", "o", "w", "n", " ", "f", "o", "x", " ", "j", "u", "m", "p", "s", " ", "o", "v", "e", "r", " ", "t", "h", "e", " ", "l", "a", "z", "y", " ", "d", "o", "g", " ", "a", "g", "a", "i", "n">>

\* "The Results": starts with 'the ' and has 2 words
TheResults ==
    <<"T", "h", "e", " ", "R", "e", "s", "u", "l", "t", "s">>

\* "Thermal noise in the first stage of an amplifier chain": starts with 'the' without the space, 10 words
Thermal ==
    <<"T", "h", "e", "r", "m", "a", "l", " ", "n", "o", "i", "s", "e", " ", "i", "n", " ", "t", "h", "e", " ", "f", "i", "r", "s", "t", " ", "s", "t", "a", "g", "e", " ", "o", "f", " ", "a", "n", " ", "a", "m", "p", "l", "i", "f", "i", "e", "r", " ", "c", "h", "a", "i", "n">>

\* "Funding is granted once a year by the regional board.": ends with a period and is longer than 50
LongSentence ==
    <<"F", "u", "n", "d", "i", "n", "g", " ", "i", "s", " ", "g", "r", "a", "n", "t", "e", "d", " ", "o", "n", "c", "e", " ", "a", " ", "y", "e", "a", "r", " ", "b", "y", " ", "t", "h", "e", " ", "r", "e", "g", "i", "o", "n", "a", "l", " ", "b", "o", "a", "r", "d", ".">>

\* "Really? Yes!": two sentence marks
TwoMarks ==
    <<"R", "e", "a", "l", "l", "y", "?", " ", "Y", "e", "s", "!">>

\* "a a a a a a a a a a a a a a a a a a a a a a a a a a": 26 words in 51 characters
ManyWords ==
    <<"a", " ", "a", " ", "a", " ", "a", " ", "a", " ", "a", " ", "a", " ", "a", " ", "a", " ", "a", " ", "a", " ", "a", " ", "a", " ", "a", " ", "a", " ", "a", " ", "a", " ", "a", " ", "a", " ", "a", " ", "a", " ", "a", " ", "a", " ", "a", " ", "a", " ", "a">>

\* "a b c d e f g h i j k l m n o p q r s t u:": 21 words, ends with a colon
TwentyOneWords ==
    <<"a", " ", "b", " ", "c", " ", "d", " ", "e", " ", "f", " ", "g", " ", "h", " ", "i", " ", "j", " ", "k", " ", "l", " ", "m", " ", "n", " ", "o", " ", "p", " ", "q", " ", "r", " ", "s", " ", "t", " ", "u", ":">>

\* "A b c d e f g h i j k l m n o p of the plan"
SixteenWords ==
    <<"A", " ", "b", " ", "c", " ", "d", " ", "e", " ", "f", " ", "g", " ", "h", " ", "i", " ", "j", " ", "k", " ", "l", " ", "m", " ", "n", " ", "o", " ", "p", " ", "o", "f", " ", "t", "h", "e", " ", "p", "l", "a", "n">>

\* "1. Overview"
NumberedItem ==
    <<"1", ".", " ", "O", "v", "e", "r", "v", "i", "e", "w">>

\* "a) Scope"
LetteredItem ==
    <<"a", ")", " ", "S", "c", "o", "p", "e">>

\* "Key Findings:"
KeyFindings ==
    <<"K", "e", "y", " ", "F", "i", "n", "d", "i", "n", "g", "s", ":">>

\* "12/05/2024"
SlashDate ==
    <<"1", "2", "/", "0", "5", "/", "2", "0", "2", "4">>

\* "March 5, 2024"
MonthDate ==
    <<"M", "a", "r", "c", "h", " ", "5", ",", " ", "2", "0", "2", "4">>

\* "- item"
Bullet ==
    <<"-", " ", "i", "t", "e", "m">>

\* "Chapter 2 Methods"
ChapterTwo ==
    <<"C", "h", "a", "p", "t", "e", "r", " ", "2", " ", "M", "e", "t", "h", "o", "d", "s">>

\* "Work of Phase II"
PhaseTwo ==
    <<"W", "o", "r", "k", " ", "o", "f", " ", "P", "h", "a", "s", "e", " ", "I", "I">>

\* "Regional Library Digital Strategy": 33 characters, 4 words
PlainTitle ==
    <<"R", "e", "g", "i", "o", "n", "a", "l", " ", "L", "i", "b", "r", "a", "r", "y", " ", "D", "i", "g", "i", "t", "a", "l", " ", "S", "t", "r", "a", "t", "e", "g", "y">>

\* "Abc": 3 characters
Abc ==
    <<"A", "b", "c">>

\* "Summary:": an H1 indicator and the colon of the H3 indicator, below the H1 length
SummaryColon ==
    <<"S", "u", "m", "m", "a", "r", "y", ":">>

\* "Timeline: May": an H4 and an H2 indicator
TimelineMay ==
    <<"T", "i", "m", "e", "l", "i", "n", "e", ":", " ", "M", "a", "y">>

\* "1. 12/05/2024": an H4 and an H3 indicator
NumberedDate ==
    <<"1", ".", " ", "1", "2", "/", "0", "5", "/", "2", "0", "2", "4">>

\* "2.1 Scope:": an H3 and an H2 indicator
SubsectionColon ==
    <<"2", ".", "1", " ", "S", "c", "o", "p", "e", ":">>

HeadingTexts ==
    {EmptyText,
     TwoChars,
     Paragraph220,
     Introduction,
     Background21,
     Results,
     ResultsUpper,
     ResultsLower,
     ExecutiveSummary,
     ExecuhveSummary,
     Summary,
     RomanOneA,
     AllCaps,
     TheQuick,
     TheResults,
     Thermal,
     LongSentence,
     TwoMarks,
     ManyWords,
     TwentyOneWords,
     SixteenWords,
     NumberedItem,
     LetteredItem,
     KeyFindings,
     SlashDate,
     MonthDate,
     Bullet,
     ChapterTwo,
     PhaseTwo,
     PlainTitle,
     Abc,
     SummaryColon,
     TimelineMay,
     NumberedDate,
     SubsectionColon}

\* The labels of yolo_inference.h that reach the classifier, and the default
\* argument "" of heading_classifier.hpp line 34
HeadingLabels == {"title", "text", "list", "table", "paragraph_title", ""}

HeadingLevels == {"H1", "H2", "H3", "H4"}

InitHeading ==
    /\ pc = "head_start"
    /\ heading_text \in HeadingTexts
    /\ layout_label \in HeadingLabels
    /\ page_number \in 1..MaxPage
    /\ level = "UNKNOWN"
    /\ IdleButHead

\* heading_classifier.cpp lines 28-69
Classify ==
    /\ pc = "head_start"
    /\ level' = determine_heading_level(heading_text, layout_label, page_number)
    /\ pc' = "head_done"
    /\ UNCHANGED <<heading_text, layout_label, page_number>>
    /\ UNCHANGED varsButHead

NextHeading == Classify

SpecHeading == InitHeading /\ [][NextHeading]_vars

(***************************************************************************)
(* YOLOInference::initialize and YOLOInference::detect_layout.  The boxes  *)
(* of the placeholder layout are in pixels as static_cast<int> reads them  *)
(* (their float products are whole numbers, up to rounding, for the image  *)
(* sizes of ImageSizes), their confidences in thousandths.                 *)
(***************************************************************************)
\* yolo_inference.cpp lines 460-480; y_start is in thousandths
create_fallback_layout(img) ==
    LET height == img.rows
        width == img.cols
        title == BBox((100 * width) \div 1000, (50 * height) \div 1000,
                      (900 * width) \div 1000, (150 * height) \div 1000,
                      950, 1, "title")
        y_start(i) == 150 + i * 200
        band(i) == BBox((100 * width) \div 1000,
                        (y_start(i) * height) \div 1000,
                        (700 * width) \div 1000,
                        ((y_start(i) + 50) * height) \div 1000,
                        850, 5, "paragraph_title")
        bands == [i \in 1..3 |-> IF y_start(i) < 800 THEN <<band(i)>> ELSE <<>>]
    IN  <<title>> \o bands[1] \o bands[2] \o bands[3]

\* lines 10-14: the detector as its constructor leaves it; returned is the
\* value of the last call of initialize
NewDetector == [initialized_ |-> FALSE, ort_session_ |-> FALSE, returned |-> FALSE]

\* What a call of initialize finds: no model file in the directory, a model
\* that loads, or a model for which ONNX Runtime throws before or after the
\* session is made
InitializeOutcomes ==
    {"no_model", "loaded", "throws_before_session", "throws_after_session"}

\* lines 55-114 in the ONNX build: the success path and the catch block
\* both set initialized_ and return true
initialize_onnx(detector, outcome) ==
    [initialized_ |-> TRUE,
     ort_session_ |-> (detector.ort_session_ \/ outcome # "throws_before_session"),
     returned |-> TRUE]

\* The mutant of initialize: without a model file the call fails.
initialize_FailsWithoutModel(detector, onnx, outcome) ==
    IF onnx /\ outcome # "no_model"
    THEN initialize_onnx(detector, outcome)
    ELSE [detector EXCEPT !.returned = FALSE]

\* lines 22-52: the model files are looked for in the ONNX build only
initialize(detector, onnx, outcome) ==
    IF onnx /\ outcome # "no_model"
    THEN initialize_onnx(detector, outcome)
    ELSE [detector EXCEPT !.initialized_ = TRUE, !.returned = TRUE]

\* The mutant of detect_layout: an empty result of the session is replaced
\* by the placeholder layout.
detect_layout_NeverEmpty(initialized, onnx, session, img, run) ==
    IF ~initialized THEN <<>>
    ELSE IF onnx /\ session /\ ~run.throws /\ run.detections # <<>>
         THEN run.detections
    ELSE create_fallback_layout(img)

\* lines 116-216; run is what lines 125-204 did: thrown a std::exception, or
\* computed the detections of postprocess_yolo11_detections
detect_layout(initialized, onnx, session, img, run) ==
    IF ~initialized THEN <<>>
    ELSE IF onnx /\ session
         THEN IF run.throws THEN create_fallback_layout(img)
              ELSE run.detections
    ELSE create_fallback_layout(img)

(***************************************************************************)
(* Specification SpecLayout: a YOLOInference is constructed, initialized   *)
(* as PDFProcessor's constructor does, and asked for the layout of a page. *)
(***************************************************************************)
ImageSizes ==
    {[cols |-> 10, rows |-> 20],
     [cols |-> 100, rows |-> 100],
     [cols |-> 620, rows |-> 880],
     [cols |-> 850, rows |-> 1100],
     [cols |-> 1000, rows |-> 1000],
     [cols |-> 1240, rows |-> 1760],
     [cols |-> 1700, rows |-> 2200],
     [cols |-> 2550, rows |-> 3300]}

\* What the decoder can return for a page
LayoutBoxes ==
    {BBox(10, 10, 90, 20, 900, 10, "title"),
     BBox(10, 30, 90, 60, 800, 8, "table"),
     BBox(10, 70, 90, 80, 600, 9, "text")}

Runs ==
    {[ran |-> TRUE, throws |-> TRUE, detections |-> <<>>]}
    \cup {[ran |-> TRUE, throws |-> FALSE, detections |-> d] :
             d \in SeqsUpTo(LayoutBoxes, MaxDet)}

\* yolo_inference.cpp lines 10-12: the constructor, in either build
InitLayout ==
    /\ pc = "layout_new"
    /\ USE_ONNX_RUNTIME \in BOOLEAN
    /\ initialized_ = FALSE
    /\ ort_session_ = FALSE
    /\ image = [cols |-> 0, rows |-> 0]
    /\ inference = NotRun
    /\ layout = <<>>
    /\ IdleButLayout

\* yolo_inference.cpp lines 22-52 and 55-114, called at pdf_processor.cpp
\* line 47: a session exists only in the ONNX build and only when a model
\* file was found and loaded; initialized_ is set on every path
Initialize ==
    /\ pc = "layout_new"
    /\ \E outcome \in InitializeOutcomes :
          \E detector \in {initialize(NewDetector, USE_ONNX_RUNTIME, outcome)} :
             /\ initialized_' = detector.initialized_
             /\ ort_session_' = detector.ort_session_
    /\ pc' = "layout_ready"
    /\ UNCHANGED <<USE_ONNX_RUNTIME, image, inference, layout>>
    /\ UNCHANGED varsButLayout

\* yolo_inference.cpp lines 116-216, called at pdf_processor.cpp line 349
DetectLayout ==
    /\ pc = "layout_ready"
    /\ image' \in ImageSizes
    /\ inference' \in (IF initialized_ /\ USE_ONNX_RUNTIME /\ ort_session_
                       THEN Runs ELSE {NotRun})
    /\ layout' = detect_layout(initialized_, USE_ONNX_RUNTIME, ort_session_,
                               image', inference')
    /\ pc' = "layout_done"
    /\ UNCHANGED <<USE_ONNX_RUNTIME, initialized_, ort_session_>>
    /\ UNCHANGED varsButLayout

NextLayout == Initialize \/ DetectLayout

SpecLayout == InitLayout /\ [][NextLayout]_vars

(***************************************************************************)
(* PDFProcessor::process_single_page_ai and its callers.  A page is the    *)
(* image of the page (its cols and rows), the text blocks of the page in   *)
(* the document, the detections detect_layout returns for the image, each  *)
(* with the standard output of tesseract for its crop, and the step at     *)
(* which a std::exception is thrown while the page is processed: 0 for     *)
(* none, 1 for table or layout detection (lines 340-349), k + 1 for the    *)
(* work on the k-th detection (lines 374-385).  Boxes have whole pixel     *)
(* coordinates, so that the casts of lines 357-360 leave them as they are. *)
(***************************************************************************)
\* pdf_processor.hpp lines 13-19
HeadingInfo(lvl, txt, pn, bounding_box, confidence) ==
    [level |-> lvl, text |-> txt, page_number |-> pn,
     bounding_box |-> bounding_box, confidence |-> confidence]

\* pdf_processor.cpp lines 459-460: std::remove of one character
RemoveChar(s, ch) == SelectSeq(s, LAMBDA c : c # ch)

\* lines 463-466: find_first_not_of(" \t"), find_last_not_of(" \t"), substr
TrimBlanks(s) ==
    LET kept == {k \in 1..Len(s) : s[k] \notin {" ", "\t"}}
        start == CHOOSE k \in kept : \A j \in kept : k <= j
        end == CHOOSE k \in kept : \A j \in kept : k >= j
    IN  IF kept = {} THEN <<>> ELSE SubSeq(s, start, end)

\* lines 426-474, from the standard output of tesseract on; a crop that
\* cannot be taken, written or read gives the empty output
crop_and_ocr_text(stdout) == TrimBlanks(RemoveChar(RemoveChar(stdout, "\n"), "\r"))

\* lines 357-360
BoxToRect(d) == Rect(d.x1, d.y1, d.x2 - d.x1, d.y2 - d.y1)

\* lines 393-401
LevelString(classified_level) ==
    CASE classified_level = "H1" -> "H1"
      [] classified_level = "H2" -> "H2"
      [] classified_level = "H3" -> "H3"
      [] classified_level = "H4" -> "H4"
      [] OTHER -> "H2"

\* The mutant of IsHeadingLabel: a table is read as well.
IsHeadingLabel_WithTable(label) ==
    label = "title" \/ label = "paragraph_title" \/ label = "text"
    \/ label = "table"

\* line 368
IsHeadingLabel(label) ==
    label = "title" \/ label = "paragraph_title" \/ label = "text"

\* The mutant of IsDropped: no level is dropped.
IsDropped_Never(classified_level) == FALSE

\* line 389
IsDropped(classified_level) == classified_level = "UNKNOWN"

\* The mutant of EmitHeading: the record is put at the front of the list.
EmitHeading_AtFront(acc, k, pn, bbox, confidence, corrected_text, classified_level) ==
    IF classified_level = "UNKNOWN"
    THEN [acc EXCEPT !.classified = Append(@, k)]
    ELSE [acc EXCEPT
              !.headings =
                  <<HeadingInfo(LevelString(classified_level), corrected_text,
                                pn, bbox, confidence)>> \o @,
              !.classified = Append(@, k)]

\* lines 388-411: the region is dropped or its record is pushed; acc holds
\* page_headings and the detections given to determine_heading_level so far
EmitHeading(acc, k, pn, bbox, confidence, corrected_text, classified_level) ==
    IF IsDropped(classified_level)
    THEN [acc EXCEPT !.classified = Append(@, k)]
    ELSE [acc EXCEPT
              !.headings =
                  Append(@, HeadingInfo(LevelString(classified_level),
                                        corrected_text, pn, bbox, confidence)),
              !.classified = Append(@, k)]

\* lines 381-386; heading_classifier_ is set by the constructor (line 64)
ClassifyRegion(acc, k, pn, bbox, detection, corrected_text) ==
    EmitHeading(acc, k, pn, bbox, detection.confidence, corrected_text,
                determine_heading_level(corrected_text, detection.label, pn))

\* lines 355-417: the loop from the k-th detection on
RECURSIVE ProcessDetections(_, _, _, _, _, _)
ProcessDetections(pg, tables, pn, fixes, k, acc) ==
    IF k > Len(pg.detections) \/ pg.throw_step = k + 1 THEN acc
    ELSE LET detection == pg.detections[k].box
             bbox == BoxToRect(detection)
             safe_bbox == RectAnd(bbox, Rect(0, 0, pg.image.cols, pg.image.rows))
             extracted_text == crop_and_ocr_text(pg.detections[k].stdout)
             continued ==
                 \/ is_region_overlapping_table(bbox, tables)
                 \/ ~IsHeadingLabel(detection.label)
                 \/ safe_bbox.width <= 0
                 \/ safe_bbox.height <= 0
             cropped == [acc EXCEPT !.ocr_regions = Append(@, k)]
             after ==
                 IF continued THEN acc
                 ELSE IF ~(Len(extracted_text) > 2) THEN cropped
                 ELSE ClassifyRegion(cropped, k, pn, bbox, detection,
                                     correct_text(extracted_text, fixes))
         IN  ProcessDetections(pg, tables, pn, fixes, k + 1, after)

\* lines 335-424; ready is yolo_detector_ && yolo_detector_->is_initialized()
process_single_page_ai(pg, pn, fixes, ready) ==
    LET nothing == [headings |-> <<>>, classified |-> <<>>, ocr_regions |-> <<>>]
    IN  IF pg.throw_step = 1 \/ ~ready THEN nothing
        ELSE ProcessDetections(pg, detect_tables_on_page(pg.text_blocks),
                               pn, fixes, 1, nothing)

\* lines 240-267: the fallback of ai_detect_headings for n images.  The
\* text of a dummy heading is "Sample heading from page " and the number.
SampleHeadingFromPage ==
    <<"S", "a", "m", "p", "l", "e", " ", "h", "e", "a", "d", "i", "n", "g", " ", "f", "r", "o", "m", " ", "p", "a", "g", "e", " ">>

DecimalDigits == <<"0", "1", "2", "3", "4", "5", "6", "7", "8", "9">>

RECURSIVE to_string(_)
to_string(n) ==
    IF n < 10 THEN <<DecimalDigits[n + 1]>>
    ELSE to_string(n \div 10) \o <<DecimalDigits[(n % 10) + 1]>>

detect_headings(n) ==
    [i \in 1..n |->
        HeadingInfo("H2", SampleHeadingFromPage \o to_string(i), i,
                    Rect(0, 0, 0, 0), 800)]

(***************************************************************************)
(* Specification SpecDoc: main's loop over the files of a batch, with      *)
(* process_pdf, ai_detect_headings and process_single_page_ai for each.    *)
(***************************************************************************)
\* A letter page rendered at 100 dpi
LetterImage == [cols |-> 850, rows |-> 1100]

Detection(box, stdout) == [box |-> box, stdout |-> stdout]

TitleExecutiveSummary ==
    Detection(BBox(85, 55, 765, 165, 950, 1, "title"),
              <<"E", "x", "e", "c", "u", "t", "i", "v", "e", " ", "S", "u", "m", "m", "a", "r", "y">> \o <<"\n">>)

TableRegion ==
    Detection(BBox(85, 400, 765, 700, 900, 8, "table"),
              <<"T", "o", "t", "a", "l", " ", "1", "2">> \o <<"\n">>)

TextResults ==
    Detection(BBox(85, 250, 595, 290, 800, 9, "text"),
              <<" ", " ", "R", "e", "s", "u", "l", "t", "s", " ">> \o <<"\n">>)

ParagraphTitleOverview ==
    Detection(BBox(85, 300, 595, 340, 850, 7, "paragraph_title"),
              <<"O", "v", "e", "r", "v", "i", "e", "w">> \o <<"\n">>)

TitleIntroduction ==
    Detection(BBox(85, 55, 765, 165, 700, 1, "title"),
              <<"I", "n", "t", "r", "o", "d", "u", "c", "t", "i", "o", "n">> \o <<"\n">>)

\* within the table around TwoColumnsOfFour
TextInTable ==
    Detection(BBox(80, 40, 400, 60, 600, 9, "text"), <<"Q", "u", "a", "r", "t", "e", "r">> \o <<"\n">>)

\* beyond the right and lower edge of the image
TextOutsideImage ==
    Detection(BBox(900, 1200, 1000, 1300, 600, 9, "text"),
              <<"A", "p", "p", "e", "n", "d", "i", "x">> \o <<"\n">>)

\* two characters of text
TextTooShort ==
    Detection(BBox(85, 800, 595, 840, 600, 9, "text"), <<"H", "i">> \o <<"\n">>)

Page(text_blks, dets, throw_step) ==
    [image |-> LetterImage, text_blocks |-> text_blks, detections |-> dets,
     throw_step |-> throw_step]

PageExecutiveSummary == Page(<<>>, <<TitleExecutiveSummary, TableRegion>>, 0)

\* detect_layout returns the detections in the order nms kept them: the
\* three regions of equal confidence come in one of the orders std::sort
\* can leave them in
PageWithTable ==
    Page(TwoColumnsOfFour,
         <<ParagraphTitleOverview, TextResults, TextInTable, TextOutsideImage,
           TextTooShort>>, 0)

PageThrowsAtOnce == Page(<<>>, <<TitleExecutiveSummary, TableRegion>>, 1)

PageThrowsAtSecond == Page(<<>>, <<TextResults, TitleIntroduction>>, 3)

PageWithoutDetections == Page(<<>>, <<>>, 0)

\* a numbered list below the text region
ListScope ==
    Detection(BBox(85, 500, 595, 600, 750, 3, "list"),
              <<"1", ".", " ", "S", "c", "o", "p", "e">> \o <<"\n">>)

\* yolo_inference.cpp lines 413-421: the candidates in the order nms kept
\* them, for each order std::sort can give
KeptDetections(candidates) ==
    LET bs == [k \in 1..Len(candidates) |-> candidates[k].box]
    IN  {[k \in 1..Len(nms(bs, idx, nms_threshold_)) |->
             candidates[nms(bs, idx, nms_threshold_)[k]]] :
            idx \in SortedIndices(bs)}

\* The candidates of a page from its top to its bottom: a title, a text
\* region of higher confidence below it and a list below both
CandidatesTopToBottom == <<TitleIntroduction, TextResults, ListScope>>

PagesKeptByConfidence ==
    {Page(<<>>, dets, 0) : dets \in KeptDetections(CandidatesTopToBottom)}

PageKinds ==
    {PageExecutiveSummary, PageWithTable, PageThrowsAtOnce,
     PageThrowsAtSecond, PageWithoutDetections} \cup PagesKeptByConfidence

\* pdf_processor.cpp line 327: the result of process_single_page_ai for each
\* page, page number, correction order and state of the detector
PageResults ==
    [pg \in PageKinds, pn \in 1..MaxPage, fixes \in FixOrders, ready \in BOOLEAN |->
        process_single_page_ai(pg, pn, fixes, ready)]

\* The mutant of PageNumber: the pages are numbered from the last one down.
PageNumber_Descending(i) == MaxPage - i

\* pdf_processor.cpp line 327: static_cast<int>(i + 1)
PageNumber(i) == i + 1

\* The mutant of HasNextFile: the loop ends at the first file that failed.
HasNextFile_UntilFailure(i, n) ==
    i < n /\ \A k \in 1..Len(reported) : reported[k]

\* main.cpp line 156: i < files_to_process.size()
HasNextFile(i, n) == i < n

\* pdf_processor.cpp lines 36-40
ModelPaths == 3

\* pdf_processor.cpp lines 42-49: initialize is called for one model path
\* after the other until a call returns true; found[k] is what the k-th
\* call finds
RECURSIVE TryModelPaths(_, _, _, _)
TryModelPaths(detector, onnx, found, k) ==
    IF k > ModelPaths THEN detector
    ELSE LET tried == initialize(detector, onnx, found[k])
         IN  IF tried.returned THEN tried
             ELSE TryModelPaths(tried, onnx, found, k + 1)

\* pdf_processor.cpp lines 33-53: the detectors a PDFProcessor can hold when
\* its constructor is over, for either build and whatever the model
\* directories hold
ConstructedDetectors ==
    {TryModelPaths(NewDetector, onnx, found, 1) :
        onnx \in BOOLEAN, found \in [1..ModelPaths -> InitializeOutcomes]}

\* main.cpp lines 126-154 and pdf_processor.cpp lines 20-70: the files are
\* found, the processor is built and its detector initialized
InitDoc ==
    /\ pc = "main_loop"
    /\ files_to_process \in 1..MaxDocs
    /\ file_index = 0
    /\ successful_files = 0
    /\ reported = <<>>
    /\ exit_code = -1
    /\ yolo_ready \in {detector.initialized_ : detector \in ConstructedDetectors}
    /\ page_count = 0
    /\ next_page = 0
    /\ all_headings = <<>>
    /\ page_input = NoPage
    /\ page_headings = <<>>
    /\ classified = <<>>
    /\ ocr_regions = <<>>
    /\ basic_fixes_ \in FixOrders
    /\ input = <<>>
    /\ result = <<>>
    /\ result2 = <<>>
    /\ IdleNms
    /\ IdleDec
    /\ IdleTable
    /\ IdleHead
    /\ IdleLayout
    /\ IdleRun
    /\ IdleOther

\* main.cpp lines 156-219 with pdf_processor.cpp lines 80-96 and 117-122:
\* pdf_to_images throws (no such file, a MuPDF error, a build without
\* MuPDF) or returns no image; process_pdf returns with success = false
RasterizationFails ==
    /\ pc = "main_loop"
    /\ HasNextFile(file_index, files_to_process)
    /\ reported' = Append(reported, FALSE)
    /\ file_index' = file_index + 1
    /\ UNCHANGED <<pc, files_to_process, successful_files, exit_code,
                   yolo_ready, page_count, next_page, all_headings,
                   page_input, page_headings, classified, ocr_regions>>
    /\ UNCHANGED varsButDoc

\* pdf_processor.cpp lines 80-104 and 313-324: pdf_to_images returns the
\* images of the pages and ai_detect_headings starts on them, or returns
\* detect_headings' list when the detector is not ready
StartFile ==
    /\ pc = "main_loop"
    /\ HasNextFile(file_index, files_to_process)
    /\ page_count' \in 1..MaxPage
    /\ IF yolo_ready
       THEN next_page' = 0 /\ all_headings' = <<>>
       ELSE next_page' = page_count' /\ all_headings' = detect_headings(page_count')
    /\ pc' = "pages"
    /\ UNCHANGED <<files_to_process, file_index, successful_files, reported,
                   exit_code, yolo_ready, page_input, page_headings, classified,
                   ocr_regions>>
    /\ UNCHANGED varsButDoc

\* pdf_processor.cpp lines 326-329 with lines 335-424 for the page
ProcessPage ==
    /\ pc = "pages"
    /\ next_page < page_count
    /\ \E pg \in PageKinds :
          \E done \in {PageResults[pg, PageNumber(next_page), basic_fixes_,
                                   yolo_ready]} :
             /\ page_input' = pg
             /\ page_headings' = done.headings
             /\ classified' = done.classified
             /\ ocr_regions' = done.ocr_regions
             /\ all_headings' = all_headings \o done.headings
    /\ next_page' = next_page + 1
    /\ UNCHANGED <<pc, files_to_process, file_index, successful_files,
                   reported, exit_code, yolo_ready, page_count>>
    /\ UNCHANGED varsButDoc

\* pdf_processor.cpp lines 104-122 and main.cpp lines 191-219: the loop over
\* the pages is over, save_results writes the file or throws, main counts
\* the file and the result goes out of scope
FinishFile ==
    /\ pc = "pages"
    /\ next_page = page_count
    /\ \E saved \in BOOLEAN :
          /\ reported' = Append(reported, saved)
          /\ successful_files' = successful_files + (IF saved THEN 1 ELSE 0)
    /\ file_index' = file_index + 1
    /\ page_count' = 0
    /\ next_page' = 0
    /\ all_headings' = <<>>
    /\ page_input' = NoPage
    /\ page_headings' = <<>>
    /\ classified' = <<>>
    /\ ocr_regions' = <<>>
    /\ pc' = "main_loop"
    /\ UNCHANGED <<files_to_process, exit_code, yolo_ready>>
    /\ UNCHANGED varsButDoc

\* main.cpp lines 221-232
Exit ==
    /\ pc = "main_loop"
    /\ ~HasNextFile(file_index, files_to_process)
    /\ exit_code' = (IF successful_files > 0 THEN 0 ELSE 1)
    /\ pc' = "main_done"
    /\ UNCHANGED <<files_to_process, file_index, successful_files, reported,
                   yolo_ready, page_count, next_page, all_headings,
                   page_input, page_headings, classified, ocr_regions>>
    /\ UNCHANGED varsButDoc

NextDoc == RasterizationFails \/ StartFile \/ ProcessPage \/ FinishFile \/ Exit

SpecDoc == InitDoc /\ [][NextDoc]_vars

\* main and the functions it calls are one thread of sequential loops: a
\* step that can be taken is taken
SpecDocLive == SpecDoc /\ WF_vars(NextDoc)

(***************************************************************************)
(* Specification SpecRuns: two runs of process_pdf on the same             *)
(* PDFProcessor, each for a document of one page with one detection, in    *)
(* any interleaving of their accesses to what they share: the member       *)
(* current_pdf_path_ and the files of /tmp.  Run r processes document r.   *)
(***************************************************************************)
ProcessorRuns == {1, 2}

\* Document 1: a page whose text blocks form a table, with a text region
\* inside the table.  Document 2: a page without text blocks, with a title.
RunPage(r) ==
    IF r = 1 THEN Page(TwoColumnsOfFour, <<TextInTable>>, 0)
    ELSE Page(<<>>, <<TitleExecutiveSummary>>, 0)

\* pdf_processor.cpp lines 477-606: the text blocks detect_tables_on_page
\* finds under a path; the empty path opens no document
BlocksAt(path) == IF path \in ProcessorRuns THEN RunPage(path).text_blocks ELSE <<>>

\* line 436: the values std::rand() can return; the program never seeds it,
\* and calls from two threads are not ordered, so two runs may get one value
TempNames == 1..MaxNames

NoFile == [exists |-> FALSE, stdout |-> <<>>]

\* What process_single_page_ai returns for the page of run r when nothing
\* runs beside it
SequentialHeadings(r) ==
    process_single_page_ai(RunPage(r), 1, basic_fixes_, TRUE).headings

\* pdf_processor.cpp lines 20-70: one processor, no run started
InitRuns ==
    /\ pc = "runs"
    /\ current_pdf_path_ = 0
    /\ run_pc = [r \in ProcessorRuns |-> "store"]
    /\ run_tables = [r \in ProcessorRuns |-> <<>>]
    /\ temp_crop = [r \in ProcessorRuns |-> 0]
    /\ tmp_files = [n \in TempNames |-> NoFile]
    /\ run_stdout = [r \in ProcessorRuns |-> <<>>]
    /\ run_headings = [r \in ProcessorRuns |-> <<>>]
    /\ basic_fixes_ \in FixOrders
    /\ input = <<>>
    /\ result = <<>>
    /\ result2 = <<>>
    /\ IdleNms
    /\ IdleDec
    /\ IdleTable
    /\ IdleHead
    /\ IdleLayout
    /\ IdleDoc
    /\ IdleOther

\* line 103: current_pdf_path_ = pdf_path
StorePath(r) ==
    /\ run_pc[r] = "store"
    /\ current_pdf_path_' = r
    /\ run_pc' = [run_pc EXCEPT ![r] = "tables"]
    /\ UNCHANGED <<run_tables, temp_crop, tmp_files, run_stdout, run_headings>>

\* lines 340-371: detect_tables_on_page(current_pdf_path_, page_number),
\* the layout of the page, and the tests that skip its region
DetectTablesOfRun(r) ==
    /\ run_pc[r] = "tables"
    /\ LET tables == detect_tables_on_page(BlocksAt(current_pdf_path_))
           detection == RunPage(r).detections[1].box
           bbox == BoxToRect(detection)
           safe_bbox == RectAnd(bbox, Rect(0, 0, RunPage(r).image.cols,
                                           RunPage(r).image.rows))
           skipped ==
               \/ is_region_overlapping_table(bbox, tables)
               \/ ~IsHeadingLabel(detection.label)
               \/ safe_bbox.width <= 0
               \/ safe_bbox.height <= 0
       IN  /\ run_tables' = [run_tables EXCEPT ![r] = tables]
           /\ run_pc' = [run_pc EXCEPT ![r] = IF skipped THEN "done" ELSE "crop"]
    /\ UNCHANGED <<current_pdf_path_, temp_crop, tmp_files, run_stdout,
                   run_headings>>

\* lines 429-437: the crop is written to /tmp/temp_crop_<std::rand()>.png;
\* the file holds what tesseract will print for it
WriteCrop(r) ==
    /\ run_pc[r] = "crop"
    /\ \E n \in TempNames :
          /\ temp_crop' = [temp_crop EXCEPT ![r] = n]
          /\ tmp_files' = [tmp_files EXCEPT ![n] =
                 [exists |-> TRUE, stdout |-> RunPage(r).detections[1].stdout]]
    /\ run_pc' = [run_pc EXCEPT ![r] = "ocr"]
    /\ UNCHANGED <<current_pdf_path_, run_tables, run_stdout, run_headings>>

\* lines 440-453: tesseract reads the file; it prints nothing for a file
\* that is not there
RunTesseract(r) ==
    /\ run_pc[r] = "ocr"
    /\ run_stdout' = [run_stdout EXCEPT ![r] = tmp_files[temp_crop[r]].stdout]
    /\ run_pc' = [run_pc EXCEPT ![r] = "remove"]
    /\ UNCHANGED <<current_pdf_path_, run_tables, temp_crop, tmp_files,
                   run_headings>>

\* line 456: std::remove(temp_crop.c_str())
RemoveCrop(r) ==
    /\ run_pc[r] = "remove"
    /\ tmp_files' = [tmp_files EXCEPT ![temp_crop[r]] = NoFile]
    /\ run_pc' = [run_pc EXCEPT ![r] = "emit"]
    /\ UNCHANGED <<current_pdf_path_, run_tables, temp_crop, run_stdout,
                   run_headings>>

\* lines 458-468 and 376-423: the text is cleaned, corrected and classified
EmitOfRun(r) ==
    /\ run_pc[r] = "emit"
    /\ LET detection == RunPage(r).detections[1].box
           extracted_text == crop_and_ocr_text(run_stdout[r])
           nothing == [headings |-> <<>>, classified |-> <<>>, ocr_regions |-> <<>>]
           after ==
               IF ~(Len(extracted_text) > 2) THEN nothing
               ELSE ClassifyRegion(nothing, 1, 1, BoxToRect(detection), detection,
                                   correct_text(extracted_text, basic_fixes_))
       IN  run_headings' = [run_headings EXCEPT ![r] = after.headings]
    /\ run_pc' = [run_pc EXCEPT ![r] = "done"]
    /\ UNCHANGED <<current_pdf_path_, run_tables, temp_crop, tmp_files,
                   run_stdout>>

NextRuns ==
    /\ \E r \in ProcessorRuns :
          \/ StorePath(r)
          \/ DetectTablesOfRun(r)
          \/ WriteCrop(r)
          \/ RunTesseract(r)
          \/ RemoveCrop(r)
          \/ EmitOfRun(r)
    /\ UNCHANGED <<pc, varsButRun>>

SpecRuns == InitRuns /\ [][NextRuns]_vars

(***************************************************************************)
(* TextCorrector::load_custom_corrections.  A file is a record: whether it *)
(* can be opened, and its lines.                                           *)
(***************************************************************************)
\* text_corrector.cpp line 38: line.find('='), 0 for npos
FindDelimiter(line) ==
    LET hits == {d \in 1..Len(line) : line[d] = "="}
    IN  IF hits = {} THEN 0 ELSE CHOOSE d \in hits : \A e \in hits : d <= e

\* The position of the rule with this key in the table, 0 when it has none
KeyIndex(table, key) ==
    LET hits == {k \in 1..Len(table) : table[k][1] = key}
    IN  IF hits = {} THEN 0 ELSE CHOOSE k \in hits : TRUE

\* line 42: basic_fixes_[wrong] = correct.  The value of a key the table
\* holds is overwritten in place; where a new key comes in the iteration
\* order of the unordered_map is unspecified, here first or last.
StoreFix(table, wrong, correct, front) ==
    LET k == KeyIndex(table, wrong)
    IN  IF k # 0 THEN [table EXCEPT ![k] = <<wrong, correct>>]
        ELSE IF front THEN <<<<wrong, correct>>>> \o table
        ELSE Append(table, <<wrong, correct>>)

\* lines 35-44: the lines of the file from line k on
RECURSIVE LoadLines(_, _, _, _)
LoadLines(table, lines, k, front) ==
    IF k > Len(lines) THEN table
    ELSE LET line == lines[k]
             delimiter == FindDelimiter(line)
         IN  IF delimiter # 0
             THEN LoadLines(StoreFix(table, SubSeq(line, 1, delimiter - 1),
                                     SubSeq(line, delimiter + 1, Len(line)),
                                     front),
                            lines, k + 1, front)
             ELSE LoadLines(table, lines, k + 1, front)

\* The mutant of load_custom_corrections: a file that cannot be opened
\* empties the table.
load_custom_corrections_ClearsWhenMissing(table, file, front) ==
    IF ~file.opened THEN <<>> ELSE LoadLines(table, file.lines, 1, front)

\* lines 28-45: the table after the call
load_custom_corrections(table, file, front) ==
    IF ~file.opened THEN table ELSE LoadLines(table, file.lines, 1, front)

(***************************************************************************)
(* Specification SpecCustom: a TextCorrector, load_custom_corrections      *)
(* called on it or not, then correct_text with the loops of                *)
(* apply_basic_fixes taken step by step.                                   *)
(***************************************************************************)
CustomFile(lines) == [called |-> TRUE, opened |-> TRUE, lines |-> lines]

\* A path under which no file can be opened
MissingFile == [called |-> TRUE, opened |-> FALSE, lines |-> <<>>]

CustomFiles ==
    {MissingFile,
     CustomFile(<<>>),
     CustomFile(<<<<"o", "=", "o", "o">>>>),
     CustomFile(<<<<"=">>>>),
     CustomFile(<<<<"=", "S">>>>),
     CustomFile(<<<<"S", "=">>>>),
     CustomFile(<<<<"n", "o", " ", "d", "e", "l", "i", "m", "i", "t", "e", "r">>>>),
     CustomFile(<<<<"r", "n", "=", "n">>>>),
     CustomFile(<<<<"o", "=", "S">>, <<"S", "=", "o">>>>)}

CustomInputs == SeqsUpTo({"o", "S"}, MaxTextLen - 1) \cup {<<"r", "n">>}

\* text_corrector.cpp lines 8-10: the corrector as constructed
InitCustom ==
    /\ pc = "custom_new"
    /\ input \in CustomInputs
    /\ basic_fixes_ \in FixOrders
    /\ result = <<>>
    /\ result2 = <<>>
    /\ custom_file = NoCustomFile
    /\ fix_k = 0
    /\ fix_pos = 0
    /\ IdleNms
    /\ IdleDec
    /\ IdleTable
    /\ IdleHead
    /\ IdleLayout
    /\ IdleDoc
    /\ IdleRun
    /\ IdleContext
    /\ IdleReads

\* lines 28-45
LoadCustomCorrections ==
    /\ pc = "custom_new"
    /\ \E file \in CustomFiles, front \in BOOLEAN :
          /\ custom_file' = file
          /\ basic_fixes_' = load_custom_corrections(basic_fixes_, file, front)
    /\ pc' = "custom_loaded"
    /\ UNCHANGED <<input, result, result2, fix_k, fix_pos>>

\* lines 12-15 and 47-48: correct_text returns an empty input as it is;
\* apply_basic_fixes copies the text
CorrectStart ==
    /\ pc \in {"custom_new", "custom_loaded"}
    /\ result' = input
    /\ pc' = IF input = <<>> THEN "custom_done" ELSE "fix_for"
    /\ UNCHANGED <<input, basic_fixes_, result2, custom_file, fix_k, fix_pos>>

\* The rules after rule k whose key occurs in s.  For the others the while
\* loop of line 53 ends at its first test and changes nothing.
RulesToApply(s, table, k) ==
    {r \in (k + 1)..Len(table) : Find(s, table[r][1], 1) # 0}

\* lines 51-52 and 59-72: the for loop goes to the next rule whose key
\* occurs, with pos = 0; after the last rule the whitespace is cleaned up
\* and the text returned
ForStep ==
    /\ pc = "fix_for"
    /\ LET rules == RulesToApply(result, basic_fixes_, fix_k)
       IN  IF rules = {}
           THEN /\ result' = Trim(CollapseSpaces(result, 1))
                /\ fix_k' = Len(basic_fixes_)
                /\ fix_pos' = 0
                /\ pc' = "custom_done"
           ELSE /\ fix_k' = CHOOSE r \in rules : \A q \in rules : r <= q
                /\ fix_pos' = 1
                /\ pc' = "fix_while"
                /\ UNCHANGED result
    /\ UNCHANGED <<input, basic_fixes_, result2, custom_file>>

\* line 53: pos = result.find(fix.first, pos)
WhileFind ==
    /\ pc = "fix_while"
    /\ LET p == Find(result, basic_fixes_[fix_k][1], fix_pos)
       IN  IF p = 0
           THEN /\ pc' = "fix_for"
                /\ fix_pos' = 0
           ELSE /\ pc' = "fix_replace"
                /\ fix_pos' = p
    /\ UNCHANGED <<input, basic_fixes_, result, result2, custom_file, fix_k>>

\* lines 54-55: result.replace and pos += fix.second.length(); replace
\* throws std::length_error for a text beyond max_size(), here MaxString
ReplaceStep ==
    /\ pc = "fix_replace"
    /\ LET key == basic_fixes_[fix_k][1]
           val == basic_fixes_[fix_k][2]
       IN  IF Len(result) - Len(key) + Len(val) > MaxString
           THEN /\ pc' = "custom_throws"
                /\ UNCHANGED <<result, fix_pos>>
           ELSE /\ result' = Replace(result, fix_pos, Len(key), val)
                /\ fix_pos' = NextPos(fix_pos, val)
                /\ pc' = "fix_while"
    /\ UNCHANGED <<input, basic_fixes_, result2, custom_file, fix_k>>

varsButCustom ==
    <<nmsVars, decVars, tableVars, headVars, layoutVars, docVars, runVars,
      contextVars, readVars>>

NextCustom ==
    /\ \/ LoadCustomCorrections
       \/ CorrectStart
       \/ ForStep
       \/ WhileFind
       \/ ReplaceStep
    /\ UNCHANGED varsButCustom

SpecCustom == InitCustom /\ [][NextCustom]_vars

\* One thread runs the corrector: a step that can be taken is taken.
SpecCustomLive == SpecCustom /\ WF_vars(NextCustom)

(***************************************************************************)
(* Specification SpecContext: one HeadingClassifier on which               *)
(* determine_heading_level is called with the same text, label and page    *)
(* number twice, with other bounding boxes, and with calls of initialize,  *)
(* set_document_context and determine_heading_level in between.            *)
(***************************************************************************)
ContextTexts == {PlainTitle, Results, SummaryColon, TwentyOneWords}

ContextLabels == {"title", "text", ""}

\* cv::Rect() of heading_classifier.hpp line 35, and the box of a region
ContextBoxes == {Rect(0, 0, 0, 0), Rect(85, 110, 680, 55)}

ContextTitles == {PlainTitle, Results}

\* heading_classifier.cpp lines 6-8 and heading_classifier.hpp lines 47,
\* 74-75: the classifier as constructed
InitContext ==
    /\ pc = "ctx_new"
    /\ heading_text \in ContextTexts
    /\ layout_label \in ContextLabels
    /\ page_number \in 1..MaxPage
    /\ level = "UNKNOWN"
    /\ heading_bbox = <<>>
    /\ document_title_ = <<>>
    /\ total_pages_ = 0
    /\ classifier_initialized_ = FALSE
    /\ other_calls = 0
    /\ level_again = "UNKNOWN"
    /\ IdleNms
    /\ IdleDec
    /\ IdleTable
    /\ IdleText
    /\ IdleLayout
    /\ IdleDoc
    /\ IdleRun
    /\ IdleCustom
    /\ IdleReads

\* heading_classifier.cpp lines 10-26: initialized_ is what
\* YOLOInference::initialize returns, and is left as it was when an
\* exception is caught
ClassifierInitialize ==
    /\ pc \in {"ctx_new", "ctx_called"}
    /\ ~classifier_initialized_
    /\ \E thrown \in BOOLEAN :
          classifier_initialized_' = (IF thrown THEN classifier_initialized_ ELSE TRUE)
    /\ UNCHANGED <<pc, heading_text, layout_label, page_number, level,
                   heading_bbox, document_title_, total_pages_, other_calls,
                   level_again>>

\* lines 110-113
SetDocumentContext ==
    /\ pc \in {"ctx_new", "ctx_called"}
    /\ \E title \in ContextTitles, total_pages \in 1..MaxPage :
          /\ document_title_' = title
          /\ total_pages_' = total_pages
    /\ UNCHANGED <<pc, heading_text, layout_label, page_number, level,
                   heading_bbox, classifier_initialized_, other_calls,
                   level_again>>

\* lines 28-69: the first call
FirstCall ==
    /\ pc = "ctx_new"
    /\ heading_bbox' \in ContextBoxes
    /\ level' = determine_heading_level(heading_text, layout_label, page_number)
    /\ pc' = "ctx_called"
    /\ UNCHANGED <<heading_text, layout_label, page_number, document_title_,
                   total_pages_, classifier_initialized_, other_calls,
                   level_again>>

\* lines 28-69: a call with other arguments, whose result is dropped; the
\* call writes no member of the classifier
OtherCall ==
    /\ pc = "ctx_called"
    /\ other_calls < MaxCalls
    /\ \E t \in ContextTexts, bbox \in ContextBoxes :
          determine_heading_level(t, "list", 1) \in HeadingLevels \cup {"UNKNOWN"}
    /\ other_calls' = other_calls + 1
    /\ UNCHANGED <<pc, heading_text, layout_label, page_number, level,
                   heading_bbox, document_title_, total_pages_,
                   classifier_initialized_, level_again>>

\* lines 28-69: the later call with the text, label and page number of the
\* first
SecondCall ==
    /\ pc = "ctx_called"
    /\ heading_bbox' \in ContextBoxes
    /\ level_again' = determine_heading_level(heading_text, layout_label, page_number)
    /\ pc' = "ctx_again"
    /\ UNCHANGED <<heading_text, layout_label, page_number, level,
                   document_title_, total_pages_, classifier_initialized_,
                   other_calls>>

varsButContext ==
    <<nmsVars, decVars, tableVars, textVars, layoutVars, docVars, runVars,
      customVars, readVars>>

NextContext ==
    /\ \/ ClassifierInitialize
       \/ SetDocumentContext
       \/ FirstCall
       \/ OtherCall
       \/ SecondCall
    /\ UNCHANGED varsButContext

SpecContext == InitContext /\ [][NextContext]_vars

(***************************************************************************)
(* Specification SpecReads: postprocess_yolo11_detections called with a    *)
(* tensor of any number of attribute rows, and the indices of output_data  *)
(* it reads (0-based, as in the C++ code).                                 *)
(***************************************************************************)
\* yolo_inference.cpp lines 190-191: output_shape[1], whatever the model
\* gives: the 4 geometry rows alone, one class, 10 classes, the 11 classes
\* the decoder expects, and one more
AttributeCounts == {4, 5, 14, 15, 16}

\* lines 179-181: the vector holds output_shape[1] * output_shape[2] values;
\* here the first rows of the tensor of the candidates, zeros beyond them
TensorOfRows(cs, na) ==
    LET full == TensorOf(cs)
    IN  [n \in 1..(na * Len(cs)) |-> IF n <= Len(full) THEN full[n] ELSE 0]

\* lines 357-359: the indices the loop over the first 100 candidates reads
DebugReads(nd) ==
    {(4 + c) * nd + i : c \in 0..(num_classes - 1), i \in 0..(Min(100, nd) - 1)}

\* lines 376-379 and 385-386: the indices the candidate loop reads
LoopReads(nd) ==
    {a * nd + i : a \in 0..3, i \in 0..(nd - 1)}
        \cup {(4 + c) * nd + i : c \in 0..(num_classes - 1), i \in 0..(nd - 1)}

\* The indices of a vector of this size
InRange(size) == 0..(size - 1)

\* What a read past the end of the vector can give: the behaviour is
\* undefined; the model takes a crash, or the same value at every index
\* past the end, for three values
GarbageValues == {0, 600, 900}

\* The vector as the reads see it when the memory past its end holds g
PastTheEnd(data, nd, g) ==
    [n \in 1..Max(Len(data), (4 + num_classes) * nd) |->
        IF n <= Len(data) THEN data[n] ELSE g]

InitReads ==
    /\ pc = "reads_start"
    /\ \E cs \in SeqsUpTo(Candidates, MaxDet), na \in AttributeCounts :
          /\ output_data = TensorOfRows(cs, na)
          /\ num_detections = Len(cs)
          /\ num_attributes = na
    /\ scale_x = 1
    /\ scale_y = 1
    /\ detections = <<>>
    /\ tensor_reads = {}
    /\ IdleNms
    /\ IdleTable
    /\ IdleText
    /\ IdleHead
    /\ IdleLayout
    /\ IdleDoc
    /\ IdleRun
    /\ IdleCustom
    /\ IdleContext

\* lines 343-422, for the vector as the reads see it
DecodeSeen(seen) ==
    LET bs == DecodeFrom(seen, num_detections, scale_x, scale_y, 1, <<>>)
    IN  /\ boxes' = bs
        /\ \E idx \in SortedIndices(bs) :
              /\ indices' = idx
              /\ keep' = nms(bs, idx, nms_threshold_)
              /\ detections' = FinalBoxes(bs, nms(bs, idx, nms_threshold_))
        /\ threshold' = nms_threshold_
        /\ pc' = "reads_done"

\* lines 343-422: every read is inside the vector
PostprocessInRange ==
    /\ pc = "reads_start"
    /\ DebugReads(num_detections) \cup LoopReads(num_detections)
          \subseteq InRange(Len(output_data))
    /\ tensor_reads' = DebugReads(num_detections) \cup LoopReads(num_detections)
    /\ DecodeSeen(output_data)
    /\ UNCHANGED <<output_data, num_attributes, num_detections, scale_x, scale_y>>

\* lines 343-422: a read is past the end of the vector and gives garbage
PostprocessPastTheEnd ==
    /\ pc = "reads_start"
    /\ ~(DebugReads(num_detections) \cup LoopReads(num_detections)
            \subseteq InRange(Len(output_data)))
    /\ tensor_reads' = DebugReads(num_detections) \cup LoopReads(num_detections)
    /\ \E g \in GarbageValues :
          DecodeSeen(PastTheEnd(output_data, num_detections, g))
    /\ UNCHANGED <<output_data, num_attributes, num_detections, scale_x, scale_y>>

\* lines 357-359: a read past the end of the vector ends the process
PostprocessCrashes ==
    /\ pc = "reads_start"
    /\ ~(DebugReads(num_detections) \cup LoopReads(num_detections)
            \subseteq InRange(Len(output_data)))
    /\ tensor_reads' = {CHOOSE n \in DebugReads(num_detections) :
                           \A m \in DebugReads(num_detections) : n <= m}
    /\ pc' = "reads_crashed"
    /\ UNCHANGED <<boxes, threshold, indices, keep, output_data, num_attributes,
                   num_detections, scale_x, scale_y, detections>>

varsButReads ==
    <<tableVars, textVars, headVars, layoutVars, docVars, runVars, customVars,
      contextVars>>

NextReads ==
    /\ \/ PostprocessInRange
       \/ PostprocessPastTheEnd
       \/ PostprocessCrashes
    /\ UNCHANGED varsButReads

SpecReads == InitReads /\ [][NextReads]_vars

(***************************************************************************)
(* Claims about nms, checked under SpecNms.  The claims' IoU is stated     *)
(* here from its definition, apart from the code's computation of it.      *)
(***************************************************************************)
RectOverlap(a, b) ==
    LET w == Min(a.x2, b.x2) - Max(a.x1, b.x1)
        h == Min(a.y2, b.y2) - Max(a.y1, b.y1)
    IN  IF w > 0 /\ h > 0 THEN w * h ELSE 0

RectArea(a) == (a.x2 - a.x1) * (a.y2 - a.y1)

\* IoU(a, b) > thr/1000; a union area of zero yields IoU 0
IoUAbove(a, b, thr) ==
    LET u == RectArea(a) + RectArea(b) - RectOverlap(a, b)
    IN  u > 0 /\ RectOverlap(a, b) * 1000 > thr * u

Kept == {keep[k] : k \in 1..Len(keep)}

BoxIds == 1..Len(boxes)

\* C1: after nms, no two kept boxes have an IoU with each other above the
\* threshold; of two input boxes with IoU > threshold at most one survives.
C1_KeptPairsBelowThreshold ==
    pc = "nms_done" =>
        \A a, b \in BoxIds :
            (a # b /\ IoUAbove(boxes[a], boxes[b], threshold))
                => ~(a \in Kept /\ b \in Kept)

\* C1 witness: three boxes, two of them overlapping above the threshold, and
\* nms has kept two boxes.
C1_Witness ==
    /\ pc = "nms_done"
    /\ Len(boxes) = 3
    /\ Len(keep) = 2
    /\ \E a, b \in BoxIds :
          a # b /\ IoUAbove(boxes[a], boxes[b], threshold) /\ a \in Kept

\* C2 as claimed: of two boxes with IoU > threshold of which exactly one
\* survives, the survivor is the one with the higher confidence, for every
\* input list.
C2_SurvivorIsHigherConfidence ==
    pc = "nms_done" =>
        \A a, b \in BoxIds :
            (/\ IoUAbove(boxes[a], boxes[b], threshold)
             /\ boxes[a].confidence > boxes[b].confidence
             /\ (a \in Kept) # (b \in Kept))
                => a \in Kept

\* C2 as amended: of two boxes with IoU > threshold of which exactly one
\* survives, the survivor is the one with the higher confidence, unless the
\* higher-confidence box was itself suppressed by a third kept box of at
\* least its confidence whose IoU with it exceeds the threshold.
C2_SurvivorUnlessSuppressedByThird ==
    pc = "nms_done" =>
        \A a, b \in BoxIds :
            (/\ IoUAbove(boxes[a], boxes[b], threshold)
             /\ boxes[a].confidence > boxes[b].confidence
             /\ (a \in Kept) # (b \in Kept))
                => \/ a \in Kept
                   \/ \E c \in Kept :
                         /\ c # a
                         /\ c # b
                         /\ boxes[c].confidence >= boxes[a].confidence
                         /\ IoUAbove(boxes[c], boxes[a], threshold)

\* C2 witness: a pair above the threshold whose lower-confidence box survives
\* while the higher-confidence one was suppressed by a third box.
C2_Witness ==
    /\ pc = "nms_done"
    /\ \E a, b \in BoxIds :
          /\ IoUAbove(boxes[a], boxes[b], threshold)
          /\ boxes[a].confidence > boxes[b].confidence
          /\ b \in Kept
          /\ a \notin Kept

\* C3: if every pair of input boxes has IoU = 0, nms keeps every input box:
\* the kept index list is a permutation of all input indices.
C3_DisjointBoxesAllSurvive ==
    (/\ pc = "nms_done"
     /\ \A a, b \in BoxIds : a # b => RectOverlap(boxes[a], boxes[b]) = 0)
        => /\ Len(keep) = Len(boxes)
           /\ Kept = BoxIds

\* C3 witness: three pairwise disjoint boxes went through nms with the
\* threshold 0.
C3_Witness ==
    /\ pc = "nms_done"
    /\ Len(boxes) = 3
    /\ threshold = 0
    /\ \A a, b \in BoxIds : a # b => RectOverlap(boxes[a], boxes[b]) = 0
    /\ Len(keep) = 3

(***************************************************************************)
(* Claims about the decoder, checked under SpecDec.                        *)
(***************************************************************************)
CandIds == 1..num_detections

\* attribute attr of candidate i in the [attributes][detections] tensor
Attr(attr, i) == output_data[attr * num_detections + i]

\* the class scores of candidate i, each raw score replaced by its logistic
\* value only when it exceeds 1.0
CorrectedScores(i) ==
    {IF Attr(4 + c, i) > 1000 THEN Logistic(Attr(4 + c, i)) ELSE Attr(4 + c, i) :
        c \in 0..(num_classes - 1)}

BestScore(i) == CHOOSE m \in CorrectedScores(i) : \A v \in CorrectedScores(i) : v <= m

\* box b is candidate i decoded: corners in half pixels
IsDecodedFrom(b, i) ==
    /\ b.x1 = (2 * Attr(0, i) - Attr(2, i)) * scale_x
    /\ b.x2 = (2 * Attr(0, i) + Attr(2, i)) * scale_x
    /\ b.y1 = (2 * Attr(1, i) - Attr(3, i)) * scale_y
    /\ b.y2 = (2 * Attr(1, i) + Attr(3, i)) * scale_y
    /\ b.confidence = BestScore(i)

Emitted == {boxes[k] : k \in 1..Len(boxes)} \cup {detections[k] : k \in 1..Len(detections)}

\* C4: a candidate whose best class score (logistic value only above 1.0) is
\* below the confidence threshold never appears in the output, and the output
\* never has more boxes than there are candidates.
C4_BelowThresholdNeverEmitted ==
    pc = "dec_done" =>
        /\ Len(detections) <= Len(boxes)
        /\ Len(boxes) <= Cardinality({i \in CandIds : BestScore(i) >= conf_threshold_})
        /\ Len(boxes) <= num_detections
        /\ \A b \in Emitted :
              \E i \in CandIds : IsDecodedFrom(b, i) /\ BestScore(i) >= conf_threshold_

\* C4 witness: two candidates, one below the threshold and one whose raw
\* score above 1.0 was replaced by its logistic value, and one box came out.
C4_Witness ==
    /\ pc = "dec_done"
    /\ num_detections = 2
    /\ \E i \in CandIds : BestScore(i) < conf_threshold_ /\ BestScore(i) > 0
    /\ \E i \in CandIds : BestScore(i) = Logistic(1500)
    /\ Len(detections) = 1

\* C5: every emitted box has the corners of its candidate's centre form,
\* scaled linearly: x1 = (cx - w/2) * scale_x, x2 = (cx + w/2) * scale_x,
\* y1 = (cy - h/2) * scale_y, y2 = (cy + h/2) * scale_y, read from attributes
\* 0..3 of the candidate's column.
C5_CornersAreScaledCentreForm ==
    pc = "dec_done" =>
        /\ \A b \in Emitted : \E i \in CandIds : IsDecodedFrom(b, i)
        /\ \A i \in CandIds :
              BestScore(i) >= conf_threshold_
                 => \E k \in 1..Len(boxes) : IsDecodedFrom(boxes[k], i)

\* C5 witness: a box of odd width came out under different scale factors
\* for the two axes.
C5_Witness ==
    /\ pc = "dec_done"
    /\ scale_x # scale_y
    /\ num_detections = 2
    /\ \E k \in 1..Len(detections) :
          detections[k].x2 - detections[k].x1 = 2 * 5 * scale_x

\* C6 as claimed: every box the decoder passes to nms and every box it
\* returns has x2 > x1 and y2 > y1.
C6_BoxesNonDegenerate ==
    pc = "dec_done" => \A b \in Emitted : b.x2 > b.x1 /\ b.y2 > b.y1

(***************************************************************************)
(* Claims about detect_tables_on_page, checked under SpecTable.  The       *)
(* columns are stated here by the blocks that open them, apart from the    *)
(* code's loop.                                                            *)
(***************************************************************************)
BlockIds == 1..Len(text_blocks)

Near(i, j) == Abs(text_blocks[i].x0 - text_blocks[j].x0) < alignment_tolerance

\* The blocks that open a column: those with no earlier opener near them
Openers ==
    CHOOSE R \in SUBSET BlockIds :
        \A i \in BlockIds : i \in R <=> ~\E j \in R : j < i /\ Near(j, i)

\* The column a block goes to: the earliest opened one it is near
ColumnOf(i) ==
    CHOOSE r \in Openers :
        /\ r <= i
        /\ Near(r, i)
        /\ \A q \in Openers : (q <= i /\ Near(q, i)) => r <= q

FullColumns ==
    {r \in Openers : Cardinality({i \in BlockIds : ColumnOf(i) = r}) >= 2}

\* C7: detect_tables_on_page returns one rectangle when the page has at
\* least 6 text blocks of which, assigned greedily to the first column whose
\* first member's x0 is less than the tolerance away, at least 2 columns
\* hold at least 2 blocks; otherwise none.  8 blocks in 2 columns of 4 are
\* flagged, 5 unaligned blocks are not, and there is never a second
\* rectangle.
C7_OneRectangleIffTwoFullColumns ==
    pc = "table_done" =>
        /\ Len(table_regions) <= 1
        /\ Len(table_regions) = 1
              <=> (Len(text_blocks) >= 6 /\ Cardinality(FullColumns) >= 2)
        /\ text_blocks = TwoColumnsOfFour => Len(table_regions) = 1
        /\ text_blocks = FiveUnaligned => Len(table_regions) = 0

\* C7 witness: the 8 blocks in 2 columns of 4 went through the detection
\* and one rectangle came out.
C7_Witness ==
    /\ pc = "table_done"
    /\ text_blocks = TwoColumnsOfFour
    /\ Cardinality(FullColumns) = 2
    /\ Len(table_regions) = 1

(***************************************************************************)
(* Claims about is_region_overlapping_table, checked under SpecOverlap.    *)
(* The areas are stated here from the rectangles' edges, apart from the    *)
(* code's computation.                                                     *)
(***************************************************************************)
OwnArea == region.width * region.height

\* The area common to the candidate region and a table rectangle
CommonArea(tbl) ==
    LET w == Min(region.x + region.width, tbl.x + tbl.width) - Max(region.x, tbl.x)
        h == Min(region.y + region.height, tbl.y + tbl.height) - Max(region.y, tbl.y)
    IN  IF w > 0 /\ h > 0 THEN w * h ELSE 0

TableIds == 1..Len(table_regions)

\* Some table rectangle shares more than 30% of the region's area
AboveThirtyPercent ==
    \E k \in TableIds : 10 * CommonArea(table_regions[k]) > 3 * OwnArea

C9_RnatchThisVvorkIsCorrected ==
    (pc = "text_once" /\ input = RnatchThisVvork) => result = MatchThisWork

\* C10 as claimed: the literal pass is idempotent, correct_text applied to
\* its own result returns that result.
C10_CorrectTextIdempotent ==
    pc = "text_twice" => result2 = result

(***************************************************************************)
(* Claims about determine_heading_level, checked under SpecHeading.  The   *)
(* rejection heuristic and the envelopes are stated here from the claims'  *)
(* words, apart from the code's computation of them; a word is what the    *)
(* spaces of the text delimit.                                             *)
(***************************************************************************)
Classified == pc = "head_done"

FunctionWords == {<<"t", "h", "e">>, <<"t", "h", "i", "s">>, <<"i", "n">>, <<"f", "o", "r">>, <<"w", "i", "t", "h">>, <<"a", "s">>}

FirstWord(t) ==
    LET spaces == {k \in 1..Len(t) : t[k] = " "}
    IN  IF spaces = {} THEN t
        ELSE SubSeq(t, 1, (CHOOSE k \in spaces : \A j \in spaces : k <= j) - 1)

Words(t) == Cardinality({k \in 1..Len(t) : t[k] = " "}) + 1

SentenceMarks(t) == Cardinality({k \in 1..Len(t) : t[k] \in {".", "!", "?"}})

ClaimedBodyText(t) ==
    \/ Len(t) > 200
    \/ Words(t) > 25
    \/ Len(t) > 50 /\ t[Len(t)] = "."
    \/ SentenceMarks(t) >= 2
    \/ to_lower(FirstWord(t)) \in FunctionWords /\ Words(t) > 8

\* C11: determine_heading_level returns UNKNOWN, whatever the layout label
\* and the page number, for a text shorter than 3 characters and for a text
\* that matches the body-text heuristic; so it does for the paragraph of
\* 220 characters and 3 sentences.
C11_RejectedTextIsUnknown ==
    /\ Classified /\ Len(heading_text) < 3 => level = "UNKNOWN"
    /\ Classified /\ ClaimedBodyText(heading_text) => level = "UNKNOWN"
    /\ Classified /\ heading_text = Paragraph220 => level = "UNKNOWN"

C11_Witness ==
    /\ Classified
    /\ heading_text = Paragraph220
    /\ Len(heading_text) = 220
    /\ SentenceMarks(heading_text) = 3
    /\ layout_label = "title"
    /\ level = "UNKNOWN"

ClaimedRejected(t) == Len(t) < 3 \/ ClaimedBodyText(t)

ClaimedLevelOfLabel(label) ==
    CASE label = "title" -> "H1"
      [] label = "text" -> "H2"
      [] label = "list" -> "H3"
      [] OTHER -> "UNKNOWN"

ClaimedEnvelope(L, t) ==
    CASE L = "H1" -> Len(t) >= 10 /\ Len(t) <= 150 /\ Words(t) <= 20
      [] L = "H2" -> Len(t) >= 5 /\ Len(t) <= 120 /\ Words(t) <= 15
      [] L = "H3" -> Len(t) >= 3 /\ Len(t) <= 100 /\ Words(t) <= 12
      [] L = "H4" -> Len(t) >= 3 /\ Len(t) <= 80 /\ Words(t) <= 10
      [] OTHER -> FALSE

\* C12: for a text that is not rejected up front, whose label maps to a
\* level (title to H1, text to H2, list to H3) and which passes the envelope
\* of that level, determine_heading_level returns the mapped level, whatever
\* the pattern stage says; "Introduction" on page 1 under "title" is H1 and
\* "2.1 Background" under "text" is H2.
C12_MappedLevelIsReturned ==
    /\ ( /\ Classified
         /\ ~ClaimedRejected(heading_text)
         /\ ClaimedEnvelope(ClaimedLevelOfLabel(layout_label), heading_text) )
       => level = ClaimedLevelOfLabel(layout_label)
    /\ ( /\ Classified
         /\ heading_text = Introduction
         /\ page_number = 1
         /\ layout_label = "title" )
       => level = "H1"
    /\ Classified /\ heading_text = Background21 /\ layout_label = "text"
       => level = "H2"

\* "Introduction" under the label "text": the pattern stage says H1, the
\* label says H2
C12_Witness ==
    /\ Classified
    /\ heading_text = Introduction
    /\ layout_label = "text"
    /\ ~ClaimedRejected(heading_text)
    /\ ClaimedEnvelope("H2", heading_text)
    /\ classify_by_patterns(heading_text, page_number) = "H1"
    /\ level = "H2"

IsResults(t) == to_lower(t) = <<"r", "e", "s", "u", "l", "t", "s">>

\* C13 as claimed: determine_heading_level returns H2 for a text equal to
\* "Results" up to letter case, for every layout label and every page.
C13_ResultsIsH2 == Classified /\ IsResults(heading_text) => level = "H2"

\* C13, amended: determine_heading_level returns H2 for a text equal to
\* "Results" up to letter case, on every page, for every layout label but
\* "list", for which it returns H3.
C13_ResultsIsH2UnlessList ==
    Classified /\ IsResults(heading_text)
    => level = (IF layout_label = "list" THEN "H3" ELSE "H2")

\* "RESULTS" under the label "title": too short for the H1 of the label, H2
\* by the pattern stage
C13_Witness ==
    /\ Classified
    /\ heading_text = ResultsUpper
    /\ heading_text # Results
    /\ IsResults(heading_text)
    /\ layout_label = "title"
    /\ level = "H2"

\* C14 as claimed: whenever determine_heading_level returns one of H1, H2,
\* H3 and H4, by whichever stage of the cascade, the text lies within the
\* envelope of the returned level.
C14_ReturnedLevelFitsEnvelope ==
    Classified /\ level \in HeadingLevels
    => ClaimedEnvelope(level, heading_text)

(***************************************************************************)
(* Claims about detect_layout, checked under SpecLayout.                   *)
(***************************************************************************)
LayoutReturned == pc = "layout_done"

ModelUnavailable == ~(USE_ONNX_RUNTIME /\ ort_session_)

ModelYieldsNothing ==
    inference.ran /\ ~inference.throws /\ inference.detections = <<>>

IsPlaceholder(l) ==
    /\ Len(l) = 4
    /\ l[1].label = "title"
    /\ \A k \in 2..4 : l[k].label = "paragraph_title"

\* C18 as claimed: whenever the layout model is unavailable, or runs and
\* yields no detections, detect_layout returns the placeholder layout of
\* one title band and three paragraph-title bands, four regions in all, and
\* not an empty list.
C18_PlaceholderWhenNothingDetected ==
    LayoutReturned /\ (ModelUnavailable \/ ModelYieldsNothing)
    => IsPlaceholder(layout) /\ layout = create_fallback_layout(image)

(***************************************************************************)
(* Claims about process_single_page_ai, ai_detect_headings, process_pdf    *)
(* and main, checked under SpecDoc and SpecDocLive.                        *)
(***************************************************************************)
\* process_single_page_ai has returned for page_input, the page numbered
\* next_page
PageDone == pc = "pages" /\ next_page > 0

RecordsOf(list) == {list[k] : k \in 1..Len(list)}

RegionLevel(k) ==
    determine_heading_level(
        correct_text(crop_and_ocr_text(page_input.detections[k].stdout),
                     basic_fixes_),
        page_input.detections[k].box.label, next_page)

\* C16: every heading record of a document has a level among H1, H2, H3
\* and H4, on the path through process_single_page_ai and on the fallback
\* path through detect_headings; a region classified UNKNOWN gets no record.
C16_NoUnknownLevel ==
    /\ \A h \in RecordsOf(all_headings) \cup RecordsOf(page_headings) :
          h.level \in HeadingLevels
    /\ \A n \in 0..MaxPage :
          \A h \in RecordsOf(detect_headings(n)) : h.level \in HeadingLevels
    /\ PageDone =>
          \A i \in 1..Len(classified) :
             RegionLevel(classified[i]) = "UNKNOWN" =>
                \A h \in RecordsOf(page_headings) :
                   h.bounding_box # BoxToRect(page_input.detections[classified[i]].box)

\* The page with a table: "Results" is classified and recorded, "Overview"
\* is classified UNKNOWN and dropped
C16_Witness ==
    /\ PageDone
    /\ page_input = PageWithTable
    /\ classified = <<1, 2>>
    /\ RegionLevel(1) = "UNKNOWN"
    /\ Len(page_headings) = 1
    /\ page_headings[1].level = "H2"
    /\ page_headings[1].bounding_box = BoxToRect(TextResults.box)

\* C17: in the heading list of a document the page numbers are at least 1
\* and never decrease along the list: the records of a page precede those
\* of every later page.
C17_PageNumbersNonDecreasing ==
    /\ \A k \in 1..Len(all_headings) : all_headings[k].page_number >= 1
    /\ \A j, k \in 1..Len(all_headings) :
          j < k => all_headings[j].page_number <= all_headings[k].page_number
    /\ \A n \in 0..MaxPage :
          LET fallback == detect_headings(n)
          IN  \A j, k \in 1..n :
                 /\ fallback[k].page_number >= 1
                 /\ j < k => fallback[j].page_number <= fallback[k].page_number

\* A document whose list holds a record of page 1 and then one of page 2
C17_Witness ==
    /\ PageDone
    /\ next_page = 2
    /\ Len(all_headings) >= 2
    /\ all_headings[1].page_number = 1
    /\ all_headings[Len(all_headings)].page_number = 2

\* A step of ai_detect_headings' loop: one more page is done
PageStep == pc = "pages" /\ next_page' = next_page + 1

\* A step of main's loop: one more file is done
FileStep == file_index' = file_index + 1

\* C20: a page on which an exception is thrown gets an empty or partial
\* list of its own, the records of the earlier pages stay, and the pages
\* after it are processed; a document that fails is reported with
\* success = false, and the documents after it are processed and reported.
C20_FailuresAreContained ==
    /\ [][PageStep =>
            /\ all_headings' = all_headings \o page_headings'
            /\ page_input'.throw_step > 0 =>
                  Len(page_headings') <= Max(page_input'.throw_step - 2, 0)]_vars
    /\ [][FileStep /\ pc = "main_loop" =>
            /\ reported' = Append(reported, FALSE)
            /\ successful_files' = successful_files]_vars
    /\ [][FileStep =>
            /\ Len(reported') = Len(reported) + 1
            /\ reported'[Len(reported')] <=>
                  successful_files' = successful_files + 1]_vars
    /\ (PageDone /\ page_input.throw_step > 0 /\ next_page < page_count)
          ~> (pc = "pages" /\ next_page = page_count)
    /\ ( /\ Len(reported) > 0
         /\ ~reported[Len(reported)]
         /\ file_index < files_to_process )
          ~> (pc = "main_done" /\ Len(reported) = files_to_process)

\* The second file of a batch whose first file failed: its second page
\* threw at its second region and keeps the record of the first, after the
\* record of page 1
C20_Witness ==
    /\ PageDone
    /\ reported = <<FALSE>>
    /\ next_page = 2
    /\ page_input = PageThrowsAtSecond
    /\ Len(page_headings) = 1
    /\ Len(all_headings) = 2
    /\ all_headings[1].page_number = 1

(***************************************************************************)
(* Claims about concurrent runs, checked under SpecRuns.                   *)
(***************************************************************************)
RunsDone == \A r \in ProcessorRuns : run_pc[r] = "done"

\* C19 as claimed: whatever the interleaving of two runs on the same
\* processor, each page gets the headings it gets when the runs follow one
\* another: no step of a run writes what the other run reads, neither the
\* stored document path nor the temporary crop file.
C19_InterleavingKeepsHeadings ==
    RunsDone => \A r \in ProcessorRuns : run_headings[r] = SequentialHeadings(r)

(***************************************************************************)
(* Claims about the order of the kept indices, checked under SpecNms.      *)
(***************************************************************************)
\* C21 as claimed: the indices nms returns are in non-increasing order of
\* confidence, and boxes of equal confidence are kept in their original
\* decode order (a stable tie-break).
C21_KeptInStableConfidenceOrder ==
    pc = "nms_done" =>
        \A a, b \in 1..Len(keep) :
            a < b =>
                /\ boxes[keep[a]].confidence >= boxes[keep[b]].confidence
                /\ boxes[keep[a]].confidence = boxes[keep[b]].confidence
                      => keep[a] < keep[b]

(***************************************************************************)
(* Claims about the custom corrections, checked under SpecCustom and       *)
(* SpecCustomLive.                                                         *)
(***************************************************************************)
\* correct_text has returned, or has left by an exception
CorrectTextEnded == pc \in {"custom_done", "custom_throws"}

\* C22 as claimed: the literal substitution pass ends for every input and
\* every rule table that can be built, the rules of load_custom_corrections
\* with an empty left side included.
C22_SubstitutionPassEnds == <>CorrectTextEnded

\* load_custom_corrections was called with a file that cannot be opened
LoadedMissingFile == custom_file.called /\ ~custom_file.opened

\* C25: when load_custom_corrections is given a file that cannot be opened
\* the rule table is left as it was and the call returns; correct_text then
\* gives exactly what the built-in rules give.
C25_MissingFileLeavesBuiltinRules ==
    /\ [][pc = "custom_new" /\ pc' = "custom_loaded" /\ ~custom_file'.opened
            => basic_fixes_' = basic_fixes_]_vars
    /\ [](LoadedMissingFile =>
            /\ pc # "custom_throws"
            /\ basic_fixes_ \in FixOrders
            /\ pc = "custom_done" => result = correct_text(input, basic_fixes_))

\* A non-empty text was corrected after the load of a missing file, and a
\* built-in rule changed it
C25_Witness ==
    /\ LoadedMissingFile
    /\ pc = "custom_done"
    /\ input # <<>>
    /\ result # input

(***************************************************************************)
(* Claims about the stages of determine_heading_level, checked under       *)
(* SpecHeading.                                                            *)
(***************************************************************************)
\* The indicator of level L fires on the text
Fires(L, t, page) ==
    CASE L = "H1" -> matches_h1_patterns(t, page)
      [] L = "H4" -> matches_h4_patterns(t)
      [] L = "H3" -> matches_h3_patterns(t)
      [] L = "H2" -> matches_h2_patterns(t)

\* The order in which the pattern stage is claimed to try the levels
ClaimedPatternOrder == <<"H1", "H4", "H3", "H2">>

\* The first level of the claimed order whose indicator fires; no indicator
\* is defined on the empty text (t.back() and t.front(), lines 419 and 432)
ClaimedProposal(t, page) ==
    LET firing == {k \in 1..Len(ClaimedPatternOrder) :
                      t # <<>> /\ Fires(ClaimedPatternOrder[k], t, page)}
    IN  IF firing = {} THEN "UNKNOWN"
        ELSE ClaimedPatternOrder[CHOOSE k \in firing : \A j \in firing : k <= j]

\* The layout stage returns: the label maps to a level whose envelope the
\* text passes
LayoutStageReturns(t, label) ==
    /\ ClaimedLevelOfLabel(label) # "UNKNOWN"
    /\ ClaimedEnvelope(ClaimedLevelOfLabel(label), t)

\* The pattern stage is reached with a proposal
PatternStageProposes ==
    /\ Classified
    /\ ~ClaimedRejected(heading_text)
    /\ ~LayoutStageReturns(heading_text, layout_label)
    /\ ClaimedProposal(heading_text, page_number) # "UNKNOWN"

\* C23: the pattern stage proposes the first level of H1, H4, H3, H2 whose
\* indicator fires; the proposal is returned when it passes the envelope of
\* its level, and when it does not, no level of lower priority whose
\* indicator fires takes its place: the result is UNKNOWN, or what the
\* structural stage gives under the label "text".
C23_FirstFiringLevelOrNone ==
    PatternStageProposes =>
        LET proposal == ClaimedProposal(heading_text, page_number)
        IN  IF ClaimedEnvelope(proposal, heading_text)
            THEN level = proposal
            ELSE \/ level = "UNKNOWN"
                 \/ /\ layout_label = "text"
                    /\ has_heading_structure(heading_text)
                    /\ level = classify_by_structure(heading_text, page_number)

\* "Summary:" without a label: the H1 indicator fires and fails the H1
\* envelope, the H3 indicator fires and would pass its own, the result is
\* UNKNOWN
C23_Witness ==
    /\ PatternStageProposes
    /\ heading_text = SummaryColon
    /\ ClaimedProposal(heading_text, page_number) = "H1"
    /\ ~ClaimedEnvelope("H1", heading_text)
    /\ Fires("H3", heading_text, page_number)
    /\ ClaimedEnvelope("H3", heading_text)
    /\ level = "UNKNOWN"

\* What the first two stages give: the level of the label when the text
\* passes its envelope, else the proposal of the pattern stage when the text
\* passes its envelope, else UNKNOWN
ClaimedTwoStageLevel(t, label, page) ==
    IF LayoutStageReturns(t, label) THEN ClaimedLevelOfLabel(label)
    ELSE IF ClaimedEnvelope(ClaimedProposal(t, page), t)
         THEN ClaimedProposal(t, page)
         ELSE "UNKNOWN"

\* C24 as claimed: for every label other than "text" the result of
\* determine_heading_level is the level of the layout hint if it validates,
\* else the level of the pattern stage if it validates, else UNKNOWN.
C24_OtherLabelsGetTwoStageLevel ==
    Classified /\ layout_label # "text" =>
        level = ClaimedTwoStageLevel(heading_text, layout_label, page_number)

\* C24, amended: the structural stage gives the result only under the label
\* "text" and for a text with heading structure; for a text that is not
\* rejected up front and every other label the result is the level of the
\* layout hint if it validates, else the level of the pattern stage if it
\* validates, else UNKNOWN.
C24_StructureOnlyUnderTextLabel ==
    /\ ( /\ Classified
         /\ level # "UNKNOWN"
         /\ level # ClaimedTwoStageLevel(heading_text, layout_label, page_number) )
       => /\ layout_label = "text"
          /\ has_heading_structure(heading_text)
          /\ level = classify_by_structure(heading_text, page_number)
    /\ ( /\ Classified
         /\ ~ClaimedRejected(heading_text)
         /\ layout_label # "text" )
       => level = ClaimedTwoStageLevel(heading_text, layout_label, page_number)

\* A text with heading structure to which the structural stage would give a
\* level, under another label than "text": the result is UNKNOWN
C24_Witness ==
    /\ Classified
    /\ ~ClaimedRejected(heading_text)
    /\ layout_label # "text"
    /\ has_heading_structure(heading_text)
    /\ classify_by_structure(heading_text, page_number) # "UNKNOWN"
    /\ ClaimedTwoStageLevel(heading_text, layout_label, page_number) = "UNKNOWN"
    /\ level = "UNKNOWN"

C27_ReadsStayInsideTensor ==
    pc \in {"reads_done", "reads_crashed"} =>
        /\ tensor_reads \subseteq InRange(num_attributes * num_detections)
        /\ num_attributes < 4 + num_classes => detections = <<>>

(***************************************************************************)
(* Claims about the regions of a page, checked under SpecDoc.              *)
(***************************************************************************)
\* The k-th detection of the page that was processed last
PageDetection(k) == page_input.detections[k].box

MayBecomeHeading(k) ==
    /\ PageDetection(k).label \in {"title", "paragraph_title", "text"}
    /\ ~is_region_overlapping_table(BoxToRect(PageDetection(k)),
                                    detect_tables_on_page(page_input.text_blocks))

\* C28: a heading record is only created for a detection labelled title,
\* paragraph_title or text that does not overlap a table; a detection with
\* any other label (list, table, figure, ...) is given neither to
\* crop_and_ocr_text nor to correct_text and determine_heading_level, so
\* determine_heading_level is never called with the label "list".
C28_OnlyHeadingLabelsAreRead ==
    PageDone =>
        /\ \A i \in 1..Len(ocr_regions) : MayBecomeHeading(ocr_regions[i])
        /\ \A i \in 1..Len(classified) :
              /\ MayBecomeHeading(classified[i])
              /\ PageDetection(classified[i]).label # "list"
              /\ \E j \in 1..Len(ocr_regions) : ocr_regions[j] = classified[i]
        /\ \A h \in RecordsOf(page_headings) :
              \E i \in 1..Len(classified) :
                 /\ h.bounding_box = BoxToRect(PageDetection(classified[i]))
                 /\ h.confidence = PageDetection(classified[i]).confidence

\* The page with a list between a text and a title: the list is passed over,
\* the other two regions are read, classified and recorded
C28_Witness ==
    /\ PageDone
    /\ page_input \in PagesKeptByConfidence
    /\ PageDetection(2).label = "list"
    /\ ocr_regions = <<1, 3>>
    /\ classified = <<1, 3>>
    /\ Len(page_headings) = 2

\* C30: the records of a page follow the order in which nms kept their
\* detections, so their confidences never increase along the list, whatever
\* the position of the regions on the page; each record carries the
\* confidence of its detection, and a page has at most as many records as
\* detections.
C30_RecordsInKeptOrder ==
    PageDone =>
        /\ Len(page_headings) <= Len(page_input.detections)
        /\ \E at \in [1..Len(page_headings) -> 1..Len(page_input.detections)] :
              /\ \A i, j \in 1..Len(page_headings) : i < j => at[i] < at[j]
              /\ \A i \in 1..Len(page_headings) :
                    /\ page_headings[i].bounding_box = BoxToRect(PageDetection(at[i]))
                    /\ page_headings[i].confidence = PageDetection(at[i]).confidence
        /\ \A i, j \in 1..Len(page_headings) :
              i < j => page_headings[i].confidence >= page_headings[j].confidence

\* The page whose text region lies below its title and has the higher
\* confidence: the record of the text region comes first
C30_Witness ==
    /\ PageDone
    /\ page_input \in PagesKeptByConfidence
    /\ Len(page_headings) = 2
    /\ page_headings[1].confidence > page_headings[2].confidence
    /\ page_headings[1].bounding_box.y > page_headings[2].bounding_box.y
    /\ page_headings[1].bounding_box = BoxToRect(TextResults.box)

(***************************************************************************)
(* Claims about the detector of a PDFProcessor, checked under SpecDoc.     *)
(***************************************************************************)
\* Every call of initialize on a new detector, in either build and whatever
\* it finds, leaves is_initialized() true and returns true
InitializeAlwaysSucceeds ==
    \A onnx \in BOOLEAN, outcome \in InitializeOutcomes :
        LET detector == initialize(NewDetector, onnx, outcome)
        IN  detector.initialized_ /\ detector.returned

\* detect_layout of a constructed processor gives the empty list only as
\* the result of a session that ran and kept no detection
NoUninitializedLayout ==
    \A onnx \in BOOLEAN, found \in [1..ModelPaths -> InitializeOutcomes] :
        LET detector == TryModelPaths(NewDetector, onnx, found, 1)
        IN  \A run \in Runs :
               detect_layout(detector.initialized_, onnx, detector.ort_session_,
                             LetterImage, run) = <<>>
               => /\ onnx
                  /\ detector.ort_session_
                  /\ ~run.throws
                  /\ run.detections = <<>>

IsSampleHeading(h) ==
    /\ h.level = "H2"
    /\ h.text = SampleHeadingFromPage \o to_string(h.page_number)

=============================================================================
